---- MODULE Spec2Model ----
(***************************************************************************)
(* A model of the generation server (server.js) and of the generator run  *)
(* it spawns (generate.js).                                                *)
(*                                                                         *)
(* The server keeps an in-memory job store.  POST /api/generate validates  *)
(* the body, inserts a job, spawns the generator as a child process and    *)
(* answers with the job id.  The child's events (stdout data, stderr data, *)
(* 'error', 'close') mutate the job.  GET /api/jobs/:id reads it.          *)
(*                                                                         *)
(* Every handler runs to completion on the single event-loop thread, so   *)
(* each handler is one action.                                             *)
(*                                                                         *)
(* Encodings.  An optional value (undefined / null / NaN) is a sequence    *)
(* of length 0 or 1.  A string is a sequence of one-character strings.     *)
(* Text written by a child is a sequence of symbols: NL is the newline,    *)
(* any other symbol is the number of a non-blank text fragment, numbered   *)
(* in the order the fragments are written by the processes.                *)
(***************************************************************************)
EXTENDS Integers, Sequences, FiniteSets, TLC

\* ------------------------------------------------------------------ bounds
\* Number of job ids the server hands out in one behaviour.
MaxJobs == 1
\* Number of write() calls all child processes make in one behaviour.
MaxWrites == 2
\* The clock reading saturates after this many ticks.
MaxTicks == 1
\* Number of generator runs started from the command line.
MaxCliRuns == 1
\* Jobs accepted in the two-job specification.
MaxIsoJobs == 2
\* Number of upserts in the manifest specification.
MaxUpserts == 3
\* Number of features a checkout of the classifier specification has at most.
MaxFeatures == 3
\* Evaluations of detectType on one checkout.
MaxEvals == 2
\* Number of failures one run reports in the reporting specification.
MaxReports == 2
\* Number of external operations of one run in the suspension specification.
MaxOps == 3
\* Number of clock steps the model lets one external operation stay pending.
MaxPendingSteps == 5
\* Largest iteration count in the page specification.
MaxRounds == 3

\* Longest response text, in symbols, of the extraction specification.
MaxContentLen == 6
\* Runs of like entries the root directory of the tree specification has at most.
MaxRuns == 2
\* Generator processes alive at once in the overlap specification.
MaxOverlap == 2
\* ------------------------------------------------------- program constants
\* server.js:48 -- more than 5 repos is rejected.
SERVER_MAX_REPOS == 5
\* server.js:88 -- retention window of a finished job, in milliseconds.
RetentionMs == 30 * 60 * 1000
\* The model's clock advances in steps of one retention window.
TickMs == RetentionMs

\* ------------------------------------------------------------------ helpers
None == <<>>
Some(v) == <<v>>
IsSome(o) == Len(o) = 1
Val(o) == o[1]

Min(a, b) == IF a < b THEN a ELSE b
Max(a, b) == IF a > b THEN a ELSE b

IsPrefix(s, t) == Len(s) <= Len(t) /\ SubSeq(t, 1, Len(s)) = s

NL == 0

JobIds == 1..MaxJobs
\* Identifiers a client may ask for: those handed out and one never handed out.
AskIds == 1..(MaxJobs + 1)

VARIABLES
  jobs,      \* the job store: a function from the ids present to job records
  nextId,    \* the next fresh job id (crypto.randomUUID never repeats)
  child,     \* the child process of each job
  timers,    \* pending eviction timers: id -> milliseconds left
  now,       \* Date.now()
  nwrites,   \* number of write() calls made by children so far
  http,      \* the request handled in the last step and its response
  cursor,    \* the incremental client's cursor
  seen,      \* the log lines the incremental client has received
  statusWrites, \* history: how often each job's status field was assigned
  gen,       \* the generator run (generate.js main) in progress, or the last one
  cliRuns,   \* number of generator runs started from the command line
  docs,      \* the documents on disk: repos/<repo>/index.html
  manifestDisk, \* repos/manifest.json on disk
  checkouts  \* the checkout directories on disk: tmp/repos/<owner>-<repo>

genVars == <<gen, cliRuns, docs, manifestDisk, checkouts>>

vars == <<jobs, nextId, child, timers, now, nwrites, http, cursor, seen, statusWrites,
          gen, cliRuns, docs, manifestDisk, checkouts>>


\* ------------------------------------------------------------------ strings
DigitChars == <<"0", "1", "2", "3", "4", "5", "6", "7", "8", "9">>
IsDigit(c) == \E d \in 1..10 : DigitChars[d] = c
DigitVal(c) == (CHOOSE d \in 1..10 : DigitChars[d] = c) - 1

RECURSIVE SkipSpaces(_)
SkipSpaces(s) ==
  IF s # <<>> /\ Head(s) = " " THEN SkipSpaces(Tail(s)) ELSE s

RECURSIVE DigitPrefix(_)
DigitPrefix(s) ==
  IF s # <<>> /\ IsDigit(Head(s)) THEN <<Head(s)>> \o DigitPrefix(Tail(s)) ELSE <<>>

RECURSIVE DecValue(_)
DecValue(ds) ==
  IF ds = <<>> THEN 0
  ELSE 10 * DecValue(SubSeq(ds, 1, Len(ds) - 1)) + DigitVal(ds[Len(ds)])

\* String(n) of a non-negative integer.
RECURSIVE ToDec(_)
ToDec(n) ==
  IF n < 10 THEN <<DigitChars[n + 1]>>
  ELSE ToDec(n \div 10) \o <<DigitChars[(n % 10) + 1]>>

\* parseInt(v) of an optional string: None is NaN.  An absent parameter is
\* undefined, whose string form holds no digit.  (The alphabet of the model has
\* no "0x" prefix, so the radix is always 10.)
parseInt(q) ==
  IF ~IsSome(q) THEN None
  ELSE LET s    == SkipSpaces(Val(q))
           neg  == s # <<>> /\ Head(s) = "-"
           body == IF s # <<>> /\ Head(s) \in {"-", "+"} THEN Tail(s) ELSE s
           ds   == DigitPrefix(body)
       IN IF ds = <<>> THEN None
          ELSE Some(IF neg THEN 0 - DecValue(ds) ELSE DecValue(ds))

\* x || 0 of an optional number: NaN and 0 are falsy.
OrZeroBug(o) == 0

OrZero(o) == IF IsSome(o) /\ Val(o) # 0 THEN Val(o) ELSE 0

\* Array.prototype.slice(start): a negative start counts from the end.
SliceFromBug(arr, start) ==
  LET len == Len(arr)
      k   == IF start < 0 THEN Max(len + start, 0) ELSE Min(start, len)
  IN SubSeq(arr, k + 2, len)

SliceFrom(arr, start) ==
  LET len == Len(arr)
      k   == IF start < 0 THEN Max(len + start, 0) ELSE Min(start, len)
  IN SubSeq(arr, k + 1, len)

\* String.prototype.split(c) for a one-character separator.
Includes(s, c) == \E i \in 1..Len(s) : s[i] = c

RECURSIVE SplitOn(_, _)
SplitOn(s, c) ==
  IF ~Includes(s, c) THEN <<s>>
  ELSE LET i == CHOOSE k \in 1..Len(s) :
                  s[k] = c /\ \A m \in 1..(k - 1) : s[m] # c
       IN <<SubSeq(s, 1, i - 1)>> \o SplitOn(SubSeq(s, i + 1, Len(s)), c)

\* data.toString().split('\n'): the segments between newlines.
SplitNL(s) == SplitOn(s, NL)

\* .filter(l => l.trim()): every fragment of the model is non-blank text, so a
\* segment is kept iff it holds a fragment.
FilterNonBlank(segs) == SelectSeq(segs, LAMBDA l : l # <<>>)

\* ------------------------------------------------------------ log entries
\* Messages the server itself writes, as symbol sequences distinct from any
\* child text (fragments are positive).
MsgCompleted == <<-1>>
MsgFailed(code) == <<-2, code>>
MsgFailedToStart == <<-3>>

LogEntry(type, message, ts) == [type |-> type, message |-> message, ts |-> ts]

RECURSIVE LinesToEntries(_, _, _)
LinesToEntries(lines, type, ts) ==
  IF lines = <<>> THEN <<>>
  ELSE <<LogEntry(type, Head(lines), ts)>> \o LinesToEntries(Tail(lines), type, ts)


\* ------------------------------------------------------- submission bodies
\* Tokens a client may put in the repos list.  A string token is a sequence of
\* characters; NotAString stands for any JSON value that is no string.
Tok_ax == <<"a", "/", "x">>
Tok_bx == <<"b", "/", "x">>
Tok_ay == <<"a", "/", "y">>
Tok_noSlash == <<"f", "o", "o">>
Tok_emptyRepo == <<"a", "/">>
Tok_emptyOwner == <<"/", "x">>
Tok_threeParts == <<"a", "/", "x", "/", "y">>
Tok_noPush == <<"-", "-", "n", "o", "-", "p", "u", "s", "h">>
Tok_noClone == <<"-", "-", "n", "o", "-", "c", "l", "o", "n", "e">>
Tok_iterations == <<"-", "-", "i", "t", "e", "r", "a", "t", "i", "o", "n", "s">>
Tok_one == <<"1">>
Tok_minusTwo == <<"-", "2">>
NotAString == <<"#number">>

StringTokens ==
  {Tok_ax, Tok_bx, Tok_ay, Tok_noSlash, Tok_emptyRepo, Tok_emptyOwner,
   Tok_threeParts, Tok_noPush, Tok_noClone, Tok_iterations, Tok_one}
Tokens == StringTokens \cup {NotAString}

\* n copies of a token.
Repeat(t, n) == [i \in 1..n |-> t]

\* The lists the model submits: every list of at most one token, some lists of
\* two, one of three, and lists of exactly SERVER_MAX_REPOS and SERVER_MAX_REPOS + 1 tokens.
TokenLists ==
  {<<>>} \cup {<<t>> : t \in Tokens}
  \cup {<<Tok_ax, t>> : t \in Tokens}
  \cup {<<Tok_bx, Tok_ax>>, <<Tok_noSlash, Tok_ay>>, <<Tok_emptyRepo, Tok_ay>>}
  \cup {<<Tok_ax, Tok_bx, Tok_ay>>}
  \cup {Repeat(Tok_ax, SERVER_MAX_REPOS), Repeat(Tok_ax, SERVER_MAX_REPOS + 1)}

Bodies ==
  {[kind |-> "missing", items |-> <<>>], [kind |-> "nonlist", items |-> <<>>]}
  \cup {[kind |-> "list", items |-> l] : l \in TokenLists}

\* ------------------------------------------------------------- job store
JobsWithout(j) == [k \in DOMAIN jobs \ {j} |-> jobs[k]]

NewJobBug(jobId, ts) ==
  [id |-> jobId, status |-> "success", logs |-> <<>>, startedAt |-> ts,
   finishedAt |-> Some(ts)]

NewJob(jobId, ts) ==
  [id |-> jobId, status |-> "running", logs |-> <<>>, startedAt |-> ts,
   finishedAt |-> None]

\* The 400 answer of POST /api/generate, None when the body is accepted.
ValidationErrorBug(body) ==
  IF body.kind # "list" \/ Len(body.items) = 0 THEN Some("No repos provided")
  ELSE None

ValidationError(body) ==
  IF body.kind # "list" \/ Len(body.items) = 0 THEN Some("No repos provided")
  ELSE IF Len(body.items) > SERVER_MAX_REPOS
       THEN Some("Maximum 5 repos per generation")
       ELSE None

\* What spawn() can do with the argument list: start the process ("ok"), fail
\* asynchronously (EACCES, EAGAIN, EMFILE, ENFILE, ENOENT: an 'error' event
\* follows), or throw (an argument that is no string, or any other errno).
SpawnOutcomes(items) ==
  IF \A i \in 1..Len(items) : items[i] \in StringTokens
  THEN {"ok", "asyncfail", "throw"}
  ELSE {"throw"}

NoHttp == [op |-> "none"]

NewChild(outcome) ==
  [st |-> IF outcome = "ok" THEN "running" ELSE "spawnfail",
   code |-> 0, out |-> <<>>, err |-> <<>>]

\* POST /api/generate, in a model that hands out at most cap identifiers.
SubmitHandlerUpTo(body, outcome, cap) ==
  IF IsSome(ValidationError(body))
  THEN /\ http' = [op |-> "generate", body |-> body,
                   res |-> [code |-> 400, error |-> Val(ValidationError(body))]]
       /\ UNCHANGED <<jobs, nextId, child, statusWrites>>
  ELSE /\ nextId <= cap
       /\ outcome \in SpawnOutcomes(body.items)
       /\ jobs' = (nextId :> NewJob(nextId, now)) @@ jobs
       /\ statusWrites' = (nextId :> 0) @@ statusWrites
       /\ nextId' = nextId + 1
       /\ child' = IF outcome = "throw" THEN child
                   ELSE (nextId :> NewChild(outcome)) @@ child
       /\ http' = [op |-> "generate", body |-> body,
                   res |-> IF outcome = "throw" THEN [code |-> 500]
                           ELSE [code |-> 200, jobId |-> nextId]]

\* POST /api/generate.
SubmitHandler(body, outcome) == SubmitHandlerUpTo(body, outcome, MaxJobs)


\* ----------------------------------------------------- child event handlers
\* The handlers close over the job object; the model keeps only the jobs of the
\* store, so a handler of an evicted job changes nothing that can be observed.
PushLogsBug(job, entries) == [job EXCEPT !.logs = entries]

PushLogs(job, entries) == [job EXCEPT !.logs = @ \o entries]

\* child.stdout.on('data') / child.stderr.on('data'): one log entry per
\* non-blank segment of the chunk, in order.
OnData(job, type, chunk, ts) ==
  PushLogs(job, LinesToEntries(FilterNonBlank(SplitNL(chunk)), type, ts))

\* child.on('close').
OnCloseBug(job, code, ts) ==
  [PushLogs(job, <<LogEntry("success", MsgCompleted, ts)>>)
     EXCEPT !.status = "success", !.finishedAt = Some(ts)]

OnClose(job, code, ts) ==
  IF code = 0
  THEN [PushLogs(job, <<LogEntry("success", MsgCompleted, ts)>>)
          EXCEPT !.status = "success", !.finishedAt = Some(ts)]
  ELSE [PushLogs(job, <<LogEntry("error", MsgFailed(code), ts)>>)
          EXCEPT !.status = "error", !.finishedAt = Some(ts)]

\* child.on('error').
OnError(job, ts) ==
  [PushLogs(job, <<LogEntry("error", MsgFailedToStart, ts)>>)
     EXCEPT !.status = "error", !.finishedAt = Some(ts)]

\* setTimeout(() => jobs.delete(jobId), 30 * 60 * 1000) in the 'close' handler.
ArmTimerBug(j) == timers

ArmTimer(j) == (j :> RetentionMs) @@ timers

\* A write() of the child: a text fragment, a fragment ending its line, or a
\* bare newline.  Fragments are numbered in the order they are written.
WriteShapes == {"text", "line", "newline"}
WriteText(shape, n) ==
  CASE shape = "text" -> <<n>>
    [] shape = "line" -> <<n, NL>>
    [] shape = "newline" -> <<NL>>

\* The generator writes to its stdout or stderr pipe.
ChildWrite(j, stream, shape) ==
  /\ j \in DOMAIN child
  /\ child[j].st = "running"
  /\ nwrites < MaxWrites
  /\ nwrites' = nwrites + 1
  /\ child' = [child EXCEPT
       ![j] = IF stream = "stdout"
              THEN [@ EXCEPT !.out = @ \o WriteText(shape, nwrites + 1)]
              ELSE [@ EXCEPT !.err = @ \o WriteText(shape, nwrites + 1)]]
  /\ http' = NoHttp
  /\ UNCHANGED <<jobs, nextId, timers, now, cursor, seen, statusWrites>>
  /\ UNCHANGED genVars

\* The generator process ends with an exit code.
ChildExit(j, code) ==
  /\ j \in DOMAIN child
  /\ child[j].st = "running"
  /\ child' = [child EXCEPT ![j].st = "exited", ![j].code = code]
  /\ http' = NoHttp
  /\ UNCHANGED <<jobs, nextId, timers, now, nwrites, cursor, seen, statusWrites>>
  /\ UNCHANGED genVars

\* A 'data' event of the stdout pipe delivers the first n buffered symbols.
StdoutData(j, n) ==
  /\ j \in DOMAIN child
  /\ n \in 1..Len(child[j].out)
  /\ child' = [child EXCEPT ![j].out = SubSeq(@, n + 1, Len(@))]
  /\ jobs' = IF j \in DOMAIN jobs
             THEN [jobs EXCEPT ![j] = OnData(@, "stdout", SubSeq(child[j].out, 1, n), now)]
             ELSE jobs
  /\ http' = NoHttp
  /\ UNCHANGED <<nextId, timers, now, nwrites, cursor, seen, statusWrites>>
  /\ UNCHANGED genVars

\* A 'data' event of the stderr pipe.
StderrData(j, n) ==
  /\ j \in DOMAIN child
  /\ n \in 1..Len(child[j].err)
  /\ child' = [child EXCEPT ![j].err = SubSeq(@, n + 1, Len(@))]
  /\ jobs' = IF j \in DOMAIN jobs
             THEN [jobs EXCEPT ![j] = OnData(@, "stderr", SubSeq(child[j].err, 1, n), now)]
             ELSE jobs
  /\ http' = NoHttp
  /\ UNCHANGED <<nextId, timers, now, nwrites, cursor, seen, statusWrites>>
  /\ UNCHANGED genVars

\* A failed spawn.  In this server only a failed spawn emits 'error' (the server
\* never kills the child, sends it no message and passes no abort signal).  The
\* runtime emits 'error' and then, the process having no pipe to drain, 'close'
\* with the negative errno as code, in the same turn of the event loop: both
\* handlers run before any other handler.
SpawnFailure(j) ==
  /\ j \in DOMAIN child
  /\ child[j].st = "spawnfail"
  /\ child' = [child EXCEPT ![j].st = "closed", ![j].code = 0 - 2]
  /\ jobs' = IF j \in DOMAIN jobs
             THEN [jobs EXCEPT ![j] = OnClose(OnError(@, now), 0 - 2, now)]
             ELSE jobs
  /\ statusWrites' = [statusWrites EXCEPT ![j] = @ + 2]
  /\ timers' = ArmTimer(j)
  /\ http' = NoHttp
  /\ UNCHANGED <<nextId, now, nwrites, cursor, seen>>
  /\ UNCHANGED genVars

\* A mutant of CloseEvent: 'close' is emitted at the exit of the process, with
\* output still in the pipes.
CloseEventBug(j) ==
  /\ j \in DOMAIN child
  /\ child[j].st = "exited"
  /\ child' = [child EXCEPT ![j].st = "closed"]
  /\ jobs' = IF j \in DOMAIN jobs
             THEN [jobs EXCEPT ![j] = OnClose(@, child[j].code, now)]
             ELSE jobs
  /\ statusWrites' = [statusWrites EXCEPT ![j] = @ + 1]
  /\ timers' = ArmTimer(j)
  /\ http' = NoHttp
  /\ UNCHANGED <<nextId, now, nwrites, cursor, seen>>
  /\ UNCHANGED genVars

\* The 'close' event of a process that ran: emitted once the process has ended
\* and both pipes are drained.  The handler arms the eviction timer.
CloseEvent(j) ==
  /\ j \in DOMAIN child
  /\ child[j].st = "exited" /\ child[j].out = <<>> /\ child[j].err = <<>>
  /\ child' = [child EXCEPT ![j].st = "closed"]
  /\ jobs' = IF j \in DOMAIN jobs
             THEN [jobs EXCEPT ![j] = OnClose(@, child[j].code, now)]
             ELSE jobs
  /\ statusWrites' = [statusWrites EXCEPT ![j] = @ + 1]
  /\ timers' = ArmTimer(j)
  /\ http' = NoHttp
  /\ UNCHANGED <<nextId, now, nwrites, cursor, seen>>
  /\ UNCHANGED genVars

\* A mutant of Evict: the job is deleted without a timer having come due.
EvictBug(j) ==
  /\ j \in DOMAIN jobs
  /\ timers' = [k \in DOMAIN timers \ {j} |-> timers[k]]
  /\ jobs' = JobsWithout(j)
  /\ http' = NoHttp
  /\ UNCHANGED <<nextId, child, now, nwrites, cursor, seen, statusWrites>>
  /\ UNCHANGED genVars

\* setTimeout(() => jobs.delete(jobId), 30 * 60 * 1000) fires.
Evict(j) ==
  /\ j \in DOMAIN timers
  /\ timers[j] = 0
  /\ timers' = [k \in DOMAIN timers \ {j} |-> timers[k]]
  /\ jobs' = JobsWithout(j)
  /\ http' = NoHttp
  /\ UNCHANGED <<nextId, child, now, nwrites, cursor, seen, statusWrites>>
  /\ UNCHANGED genVars

\* Time passes: the clock advances (its reading saturates after MaxTicks ticks)
\* and every pending timer comes TickMs closer.
Tick ==
  /\ now < (MaxTicks + 1) * TickMs \/ \E j \in DOMAIN timers : timers[j] > 0
  /\ now' = Min(now + TickMs, (MaxTicks + 1) * TickMs)
  /\ timers' = [j \in DOMAIN timers |-> Max(timers[j] - TickMs, 0)]
  /\ http' = NoHttp
  /\ UNCHANGED <<jobs, nextId, child, nwrites, cursor, seen, statusWrites>>
  /\ UNCHANGED genVars


\* ------------------------------------------------------------------ polling
\* Values of the ?since= query parameter: None when absent, else a string.
SinceInputs ==
  {None} \cup
  {Some(str) : str \in
     {<<>>, <<"z">>, <<"0">>, <<"1">>, <<"2">>, <<"-", "1">>, <<" ", "+", "1">>,
      <<"1", "z">>, <<"1", "0">>}}

\* The polls of the model: any cursor for job ClientJob, no cursor for the other
\* identifiers (one of them is never handed out).
ClientJob == 1
PollInputs ==
  {<<ClientJob, q>> : q \in SinceInputs} \cup {<<id, None>> : id \in AskIds}

\* GET /api/jobs/:id for a stored job.
JobResponse(job, q) ==
  [code |-> 200,
   id |-> job.id,
   status |-> job.status,
   logs |-> SliceFrom(job.logs, OrZero(parseInt(q))),
   totalLogs |-> Len(job.logs),
   startedAt |-> job.startedAt,
   finishedAt |-> IF IsSome(job.finishedAt) /\ Val(job.finishedAt) # 0
                  THEN job.finishedAt ELSE None]

NotFoundResponse == [code |-> 404, error |-> "Job not found"]

PollResponseBug(id, q) ==
  IF id \in DOMAIN jobs THEN JobResponse(jobs[id], q)
  ELSE IF id < nextId THEN [code |-> 410, error |-> "Job expired"]
  ELSE NotFoundResponse

PollResponse(id, q) ==
  IF id \in DOMAIN jobs THEN JobResponse(jobs[id], q) ELSE NotFoundResponse

PollBug(id, q) ==
  /\ http' = [op |-> "poll", id |-> id, since |-> q, client |-> FALSE,
              res |-> PollResponse(id, q)]
  /\ jobs' = IF id \in DOMAIN jobs THEN [jobs EXCEPT ![id].logs = <<>>] ELSE jobs
  /\ UNCHANGED <<nextId, child, timers, now, nwrites, cursor, seen, statusWrites>>
  /\ UNCHANGED genVars

\* GET /api/jobs/:id by any client, with any cursor.
Poll(id, q) ==
  /\ http' = [op |-> "poll", id |-> id, since |-> q, client |-> FALSE,
              res |-> PollResponse(id, q)]
  /\ UNCHANGED <<jobs, nextId, child, timers, now, nwrites, cursor, seen, statusWrites>>
  /\ UNCHANGED genVars

\* The incremental client follows job ClientJob: it starts with since=0 and then
\* passes the totalLogs of its previous response, appending what it receives.

ClientPoll ==
  LET q   == Some(ToDec(cursor))
      res == PollResponse(ClientJob, q)
  IN /\ ClientJob < nextId
     /\ http' = [op |-> "poll", id |-> ClientJob, since |-> q, client |-> TRUE,
                 res |-> res]
     /\ IF res.code = 200
        THEN /\ seen' = seen \o res.logs
             /\ cursor' = res.totalLogs
        ELSE UNCHANGED <<cursor, seen>>
     /\ UNCHANGED <<jobs, nextId, child, timers, now, nwrites, statusWrites>>
     /\ UNCHANGED genVars

\* POST /api/generate with the generator as a child whose writes and exit code
\* are chosen by ChildWrite and ChildExit.
Submit(body, outcome) ==
  /\ SubmitHandler(body, outcome)
  /\ UNCHANGED <<timers, now, nwrites, cursor, seen>>
  /\ UNCHANGED genVars

\* ------------------------------------------------------------ the generator
\* generate.js:32.
MAX_REPOS == 5
\* generate.js:59 -- the iteration count when --iterations is absent or no number.
DEFAULT_ITERATIONS == 3

\* detectGitUsername(): the owner of the origin remote.
HomeUser == <<"a">>

StartsWithDashes(s) == Len(s) >= 2 /\ s[1] = "-" /\ s[2] = "-"

\* parseArgs(argv): the loop from index i on, acc being the result so far.
RECURSIVE parseArgsFrom(_, _, _)
parseArgsFrom(argv, i, acc) ==
  IF i > Len(argv) THEN acc
  ELSE LET arg == argv[i]
       IN IF arg = Tok_noPush
            THEN parseArgsFrom(argv, i + 1, [acc EXCEPT !.noPush = TRUE])
          ELSE IF arg = Tok_noClone
            THEN parseArgsFrom(argv, i + 1, [acc EXCEPT !.noClone = TRUE])
          ELSE IF arg = Tok_iterations
            THEN LET v == parseInt(IF i + 1 <= Len(argv) THEN Some(argv[i + 1]) ELSE None)
                 IN parseArgsFrom(argv, i + 2,
                      [acc EXCEPT !.iterations =
                         IF IsSome(v) /\ Val(v) # 0 THEN Val(v) ELSE DEFAULT_ITERATIONS])
          ELSE IF StartsWithDashes(arg)
            THEN parseArgsFrom(argv, i + 1, acc)
          ELSE IF Includes(arg, "/")
            THEN parseArgsFrom(argv, i + 1, [acc EXCEPT !.repos = Append(@, arg)])
          ELSE parseArgsFrom(argv, i + 1, acc)

parseArgs(argv) ==
  parseArgsFrom(argv, 1,
    [repos |-> <<>>, noPush |-> FALSE, noClone |-> FALSE,
     iterations |-> DEFAULT_ITERATIONS])

\* main's check of one reference: fullName.split('/') must give two non-empty
\* parts.
ValidReference(fullName) ==
  LET parts == SplitOn(fullName, "/")
  IN Len(parts) = 2 /\ parts[1] # <<>> /\ parts[2] # <<>>

OwnerOf(fullName) == SplitOn(fullName, "/")[1]
RepoOf(fullName) == SplitOn(fullName, "/")[2]

\* join(tmpDir, `${owner}-${repo}`).
CloneDir(fullName) == OwnerOf(fullName) \o <<"-">> \o RepoOf(fullName)

\* The entry main builds for a written document.
ManifestEntry(fullName, ts) ==
  [owner |-> OwnerOf(fullName),
   repo |-> RepoOf(fullName),
   fullName |-> fullName,
   path |-> RepoOf(fullName),
   isExternal |-> OwnerOf(fullName) # HomeUser,
   generatedAt |-> ts]

upsertManifestEntryBug(generated, entry) == Append(generated, entry)

\* upsertManifestEntry(manifest, entry) on manifest.generated.
upsertManifestEntry(generated, entry) ==
  IF \E k \in 1..Len(generated) : generated[k].fullName = entry.fullName
  THEN LET idx == CHOOSE k \in 1..Len(generated) :
                    /\ generated[k].fullName = entry.fullName
                    /\ \A m \in 1..(k - 1) : generated[m].fullName # entry.fullName
       IN [generated EXCEPT ![idx] = entry]
  ELSE Append(generated, entry)

\* The exit code of main once the loop over the references is over.
ExitCodeAfterLoopBug(nGenerated, manifestWritten, pushed) ==
  IF nGenerated = 0 \/ ~manifestWritten \/ ~pushed THEN 1 ELSE 0

ExitCodeAfterLoop(nGenerated, manifestWritten, pushed) ==
  IF nGenerated = 0 THEN 1   \* process.exit(1): no page generated
  ELSE IF ~manifestWritten THEN 1   \* writeManifest threw: main().catch
  ELSE 0   \* a failed push is only logged

IdleGen ==
  [pc |-> "idle", job |-> 0, argv |-> <<>>, repoArgs |-> <<>>, noPush |-> FALSE,
   noClone |-> FALSE, iterations |-> 0, i |-> 0, round |-> 0, manifest |-> <<>>,
   generated |-> <<>>, code |-> 0, persistFailed |-> FALSE, pushTried |-> FALSE,
   pushFailed |-> FALSE, outcomes |-> <<>>, manifestWrites |-> 0, calls |-> <<>>,
   env |-> [NO_PUSH |-> <<>>], gitOps |-> <<>>]

\* A generator process just started with argv, for job (0: from the command line).
SpawnedGen(job, argv) == [IdleGen EXCEPT !.pc = "spawned", !.job = job, !.argv = argv]

NoRunActive == gen.pc \in {"idle", "exited"}

\* process.exit(code), or the end of main: the process ends; if it is the child
\* of a job, the server will see its exit code.
GenExit(g, code) ==
  /\ gen' = [g EXCEPT !.pc = "exited", !.code = code, !.gitOps = <<>>]
  /\ child' = IF g.job \in DOMAIN child
              THEN [child EXCEPT ![g.job].st = "exited", ![g.job].code = code]
              ELSE child

\* main up to the loop: parse the arguments, refuse no or too many references
\* and a missing API key, read the manifest.
GenStart(hasKey) ==
  /\ gen.pc = "spawned"
  /\ LET a == parseArgs(gen.argv)
         g == [gen EXCEPT !.repoArgs = a.repos, !.noPush = a.noPush,
                          !.noClone = a.noClone, !.iterations = a.iterations]
     IN IF Len(a.repos) = 0 \/ Len(a.repos) > MAX_REPOS \/ ~hasKey
        THEN GenExit(g, 1)
        ELSE /\ gen' = [g EXCEPT !.pc = "repo", !.i = 1, !.manifest = manifestDisk]
             /\ UNCHANGED child
  /\ http' = NoHttp
  /\ UNCHANGED <<jobs, nextId, timers, now, nwrites, cursor, seen, statusWrites,
                 cliRuns, docs, manifestDisk, checkouts>>

SkipReferenceBug(g, why) ==
  [g EXCEPT !.pc = "repo", !.i = @ + 2, !.round = 0, !.calls = <<>>,
            !.outcomes = Append(@, why)]

\* `continue` in the loop of main: the reference is given up for the reason
\* why, and the loop goes on with the next one.
SkipReference(g, why) ==
  [g EXCEPT !.pc = "repo", !.i = @ + 1, !.round = 0, !.calls = <<>>,
            !.outcomes = Append(@, why)]

\* What the refresh of a checkout can do: both commands succeed, the fetch
\* throws, or the reset throws.
RefreshOutcomes == {"ok", "fetchfail", "resetfail"}

\* A command main has run, with its outcome.
Cmd(name, ok) == [cmd |-> name, ok |-> ok]

\* A mutant of AcquireCheckout: --no-clone never clones.
AcquireCheckoutBug(noClone, exists, refresh, rmOk, cloneOk) ==
  IF noClone
  THEN [ops |-> <<>>, acquired |-> exists, exists |-> exists]
  ELSE [ops |-> <<Cmd("clone", cloneOk)>>, acquired |-> cloneOk, exists |-> cloneOk]

\* The "Clone" block of main for one reference: the commands it runs, whether
\* it ends with a checkout to analyse, and whether the directory exists
\* afterwards.  `rm -rf` may fail (its exception is swallowed); a clone into a
\* directory that is still there fails.
AcquireCheckout(noClone, exists, refresh, rmOk, cloneOk) ==
  IF noClone /\ exists
  THEN [ops |-> <<>>, acquired |-> TRUE, exists |-> TRUE]
  ELSE IF exists
  THEN IF refresh = "ok"
       THEN [ops |-> <<Cmd("fetch", TRUE), Cmd("reset", TRUE)>>,
             acquired |-> TRUE, exists |-> TRUE]
       ELSE LET tried == IF refresh = "fetchfail"
                         THEN <<Cmd("fetch", FALSE)>>
                         ELSE <<Cmd("fetch", TRUE), Cmd("reset", FALSE)>>
                cloned == rmOk /\ cloneOk
            IN [ops |-> tried \o <<Cmd("rm", rmOk), Cmd("clone", cloned)>>,
                acquired |-> cloned,
                exists |-> cloned \/ ~rmOk]
  ELSE [ops |-> <<Cmd("clone", cloneOk)>>, acquired |-> cloneOk, exists |-> cloneOk]

\* One pass of the loop up to generatePage's first model call: validate the
\* reference, acquire the checkout (all git commands are synchronous), analyse.
\* refresh, rmOk and cloneOk are the outcomes of the commands, if run.
\* gen.gitOps keeps the commands of this pass until the next step of the run.
GenRepo(refresh, rmOk, cloneOk) ==
  /\ gen.pc = "repo"
  /\ gen.i <= Len(gen.repoArgs)
  /\ LET fullName == gen.repoArgs[gen.i]
     IN IF ~ValidReference(fullName)
        THEN /\ gen' = SkipReference([gen EXCEPT !.gitOps = <<>>], "invalid")
             /\ UNCHANGED checkouts
        ELSE LET dir == CloneDir(fullName)
                 r   == AcquireCheckout(gen.noClone, dir \in checkouts,
                                        refresh, rmOk, cloneOk)
                 g   == [gen EXCEPT !.gitOps = r.ops]
             IN /\ gen' = IF r.acquired
                          THEN [g EXCEPT !.pc = "round", !.round = 1]
                          ELSE SkipReference(g, "clonefail")
                /\ checkouts' = IF r.exists THEN checkouts \cup {dir}
                                ELSE checkouts \ {dir}
  /\ http' = NoHttp
  /\ UNCHANGED <<jobs, nextId, child, timers, now, nwrites, cursor, seen,
                 statusWrites, cliRuns, docs, manifestDisk>>

AfterModelCallDegraded(g, ok) ==
  IF ~ok /\ g.round = 1 THEN SkipReference(g, "genfail")
  ELSE IF ok /\ g.round < g.iterations THEN [g EXCEPT !.round = @ + 1]
  ELSE [g EXCEPT !.pc = "write"]

AfterModelCallExtraRound(g, ok) ==
  IF ~ok THEN SkipReference(g, "genfail")
  ELSE IF g.round <= g.iterations THEN [g EXCEPT !.round = @ + 1]
  ELSE [g EXCEPT !.pc = "write"]

\* generatePage after callCerebras has returned (ok) or thrown (~ok) in round
\* g.round: a throw leaves generatePage and main's catch skips the reference;
\* else the loop `for (i = 2; i <= iterations; i++)` goes on or ends.
AfterModelCall(g, ok) ==
  IF ~ok THEN SkipReference(g, "genfail")
  ELSE IF g.round < g.iterations THEN [g EXCEPT !.round = @ + 1]
  ELSE [g EXCEPT !.pc = "write"]

\* One round of generatePage: a model call that succeeds or fails for good.
\* Round 1 always runs; rounds 2..iterations follow.  gen.calls keeps the
\* results of the calls made for the reference while generatePage and the
\* write of its document last.
GenRound(ok) ==
  /\ gen.pc = "round"
  /\ gen' = AfterModelCall([gen EXCEPT !.calls = Append(@, ok), !.gitOps = <<>>], ok)
  /\ http' = NoHttp
  /\ UNCHANGED <<jobs, nextId, child, timers, now, nwrites, cursor, seen,
                 statusWrites, cliRuns, docs, manifestDisk, checkouts>>

\* mkdirSync + writeFileSync of the document, then the upsert in the manifest
\* held in memory.  A write that throws ends main through main().catch.
GenWrite(ok) ==
  /\ gen.pc = "write"
  /\ LET fullName == gen.repoArgs[gen.i]
         entry    == ManifestEntry(fullName, now)
     IN IF ok
        THEN /\ docs' = [p \in DOMAIN docs \cup {entry.path} |->
                           IF p = entry.path
                           THEN [fullName |-> fullName]
                           ELSE docs[p]]
             /\ gen' = [gen EXCEPT !.pc = "repo", !.i = @ + 1, !.round = 0,
                                   !.calls = <<>>,
                                   !.manifest = upsertManifestEntry(@, entry),
                                   !.generated = Append(@, entry),
                                   !.outcomes = Append(@, "written")]
             /\ UNCHANGED child
        ELSE /\ GenExit([gen EXCEPT !.persistFailed = TRUE,
                                    !.outcomes = Append(@, "writefail")], 1)
             /\ UNCHANGED docs
  /\ http' = NoHttp
  /\ UNCHANGED <<jobs, nextId, timers, now, nwrites, cursor, seen, statusWrites,
                 cliRuns, manifestDisk, checkouts>>

WritesManifestBug(nGenerated) == TRUE

\* main writes the manifest after the loop unless no page was generated.
WritesManifest(nGenerated) == nGenerated > 0

\* What writeManifest can do: write the file ("ok"), throw leaving the file as it
\* was ("fail"), or throw after the file was truncated ("torn"; such a file no
\* longer parses, and readManifest then answers an empty manifest).
WriteOutcomes == {"ok", "fail", "torn"}

\* A mutant of PushAttempted: the option is ignored.
PushAttemptedBug(manifestWritten, noPush) == manifestWritten

\* main gets to the commit and push when writeManifest has returned and
\* --no-push was not given.
PushAttempted(manifestWritten, noPush) == manifestWritten /\ ~noPush

\* After the loop: exit 1 if nothing was generated, else write the manifest
\* once, try the push unless --no-push, and end.
GenFinish(manifestOk, pushOk) ==
  /\ gen.pc = "repo"
  /\ gen.i > Len(gen.repoArgs)
  /\ LET n       == Len(gen.generated)
         attempt == WritesManifest(n)
         written == attempt /\ manifestOk = "ok"
         tried   == PushAttempted(written, gen.noPush)
     IN /\ manifestDisk' = IF written THEN gen.manifest
                           ELSE IF attempt /\ manifestOk = "torn" THEN <<>>
                           ELSE manifestDisk
        /\ GenExit([gen EXCEPT !.persistFailed = (attempt /\ manifestOk # "ok"),
                               !.manifestWrites = IF written THEN @ + 1 ELSE @,
                               !.pushTried = tried,
                               !.pushFailed = (tried /\ ~pushOk)],
                   ExitCodeAfterLoop(n, written, tried => pushOk))
  /\ http' = NoHttp
  /\ UNCHANGED <<jobs, nextId, timers, now, nwrites, cursor, seen, statusWrites,
                 cliRuns, docs, checkouts>>

\* POST /api/generate with the generator run modelled step by step.
SubmitGen(body, outcome) ==
  /\ NoRunActive
  /\ SubmitHandler(body, outcome)
  /\ gen' = IF ~IsSome(ValidationError(body)) /\ outcome = "ok"
            THEN SpawnedGen(nextId, body.items)
            ELSE gen
  /\ UNCHANGED <<timers, now, nwrites, cursor, seen, cliRuns, docs, manifestDisk,
                 checkouts>>

\* node generate.js <argv> from a shell (regen-all.sh, or by hand): the lists of
\* at most two string tokens, four lists with an option, and one list longer
\* than the generator's limit.
CliArgvs ==
  {l \in TokenLists : Len(l) <= 2 /\ \A k \in 1..Len(l) : l[k] \in StringTokens}
  \cup {<<Tok_noPush, Tok_ax>>, <<Tok_noClone, Tok_ax>>, <<Tok_iterations, Tok_one, Tok_ay>>}
  \cup {<<Tok_iterations, Tok_minusTwo, Tok_ay>>}
  \cup {Repeat(Tok_ax, MAX_REPOS + 1)}

\* process.env of a run started from a shell: NO_PUSH unset, or set to "1".
ProcessEnvs == {[NO_PUSH |-> None], [NO_PUSH |-> Some(<<"1">>)]}

CliRun(argv, env) ==
  /\ NoRunActive
  /\ cliRuns < MaxCliRuns
  /\ cliRuns' = cliRuns + 1
  /\ gen' = [SpawnedGen(0, argv) EXCEPT !.env = env]
  /\ http' = NoHttp
  /\ UNCHANGED <<jobs, nextId, child, timers, now, nwrites, cursor, seen,
                 statusWrites, docs, manifestDisk, checkouts>>

\* ------------------------------------------------------------ specification
Init ==
  /\ jobs = <<>>
  /\ nextId = 1
  /\ child = <<>>
  /\ timers = <<>>
  /\ now = TickMs
  /\ nwrites = 0
  /\ http = NoHttp
  /\ cursor = 0
  /\ seen = <<>>
  /\ statusWrites = <<>>
  /\ gen = IdleGen
  /\ cliRuns = 0
  /\ docs = <<>>
  /\ manifestDisk = <<>>
  /\ checkouts = {}

ExitCodes == {0, 1}

Next ==
  \/ \E body \in Bodies, outcome \in {"ok", "asyncfail", "throw"} : Submit(body, outcome)
  \/ \E j \in JobIds, stream \in {"stdout", "stderr"}, shape \in WriteShapes :
       ChildWrite(j, stream, shape)
  \/ \E j \in JobIds, code \in ExitCodes : ChildExit(j, code)
  \/ \E j \in JobIds, n \in 1..(2 * MaxWrites) : StdoutData(j, n)
  \/ \E j \in JobIds, n \in 1..(2 * MaxWrites) : StderrData(j, n)
  \/ \E j \in JobIds : SpawnFailure(j)
  \/ \E j \in JobIds : CloseEvent(j)
  \/ \E j \in JobIds : Evict(j)
  \/ Tick
  \/ \E p \in PollInputs : Poll(p[1], p[2])
  \/ ClientPoll

Spec == Init /\ [][Next]_vars


\* The server with the generator run modelled step by step (its writes to the
\* pipes are left out: see Spec for them).
NextGen ==
  \/ \E body \in Bodies, outcome \in {"ok", "asyncfail", "throw"} : SubmitGen(body, outcome)
  \/ \E argv \in CliArgvs, env \in ProcessEnvs : CliRun(argv, env)
  \/ \E hasKey \in BOOLEAN : GenStart(hasKey)
  \/ \E refresh \in RefreshOutcomes, rmOk, cloneOk \in BOOLEAN :
       GenRepo(refresh, rmOk, cloneOk)
  \/ \E ok \in BOOLEAN : GenRound(ok)
  \/ \E ok \in BOOLEAN : GenWrite(ok)
  \/ \E manifestOk \in WriteOutcomes, pushOk \in BOOLEAN : GenFinish(manifestOk, pushOk)
  \/ \E j \in JobIds : SpawnFailure(j)
  \/ \E j \in JobIds : CloseEvent(j)

SpecGen == Init /\ [][NextGen]_vars

\* Fairness of the server's event loop: a drained, ended child gets its 'close',
\* a failed spawn its 'error' and 'close', time passes, and a due timer fires.
FairSpec ==
  /\ Spec
  /\ WF_vars(Tick)
  /\ \A j \in JobIds :
       WF_vars(CloseEvent(j)) /\ WF_vars(SpawnFailure(j)) /\ WF_vars(Evict(j))

\* Two jobs side by side: the server with two submissions accepted, their
\* children, the polls of any client, the clock and the timers.
IsoJobIds == 1..MaxIsoJobs

IsoBodies ==
  {[kind |-> "list", items |-> <<>>], [kind |-> "list", items |-> <<Tok_ax>>]}

SubmitIso(body, outcome) ==
  /\ SubmitHandlerUpTo(body, outcome, MaxIsoJobs)
  /\ UNCHANGED <<timers, now, nwrites, cursor, seen>>
  /\ UNCHANGED genVars

NextIso ==
  \/ \E body \in IsoBodies, outcome \in {"ok", "asyncfail", "throw"} :
       SubmitIso(body, outcome)
  \/ \E j \in IsoJobIds, stream \in {"stdout", "stderr"} : ChildWrite(j, stream, "line")
  \/ \E j \in IsoJobIds, code \in ExitCodes : ChildExit(j, code)
  \/ \E j \in IsoJobIds, n \in 1..(2 * MaxWrites) : StdoutData(j, n)
  \/ \E j \in IsoJobIds, n \in 1..(2 * MaxWrites) : StderrData(j, n)
  \/ \E j \in IsoJobIds : SpawnFailure(j)
  \/ \E j \in IsoJobIds : CloseEvent(j)
  \/ \E j \in IsoJobIds : Evict(j)
  \/ Tick
  \/ \E id \in 1..(MaxIsoJobs + 1) : Poll(id, None)

SpecIso == Init /\ [][NextIso]_vars

\* The event loop delivers what is due and a started generator ends; no poll is
\* ever required to happen.
FairIso ==
  /\ SpecIso
  /\ \A j \in IsoJobIds :
       /\ WF_vars(\E code \in ExitCodes : ChildExit(j, code))
       /\ WF_vars(\E n \in 1..(2 * MaxWrites) : StdoutData(j, n))
       /\ WF_vars(\E n \in 1..(2 * MaxWrites) : StderrData(j, n))
       /\ WF_vars(CloseEvent(j))
       /\ WF_vars(SpawnFailure(j))

\* ------------------------------------------- the suspension points of a run
\* The external operations main waits for: the fetch and the hard reset of a
\* refresh, a clone, one attempt of a model call, the commit and push.
Ops == {"fetch", "reset", "clone", "modelcall", "push"}

CLONE_TIMEOUT_MS == 90000
MODEL_TIMEOUT_MS == 120000
\* The model's clock advances in steps of 30 seconds while a run waits.
WaitStepMs == 30000

\* The timeout the code sets on the operation, None when it sets none:
\* execSync(`git clone ...`, { timeout: 90_000 }), AbortSignal.timeout(120_000),
\* and gitExec, which passes no timeout to execSync.
TimeoutMs(op) ==
  CASE op = "clone" -> Some(CLONE_TIMEOUT_MS)
    [] op = "modelcall" -> Some(MODEL_TIMEOUT_MS)
    [] op \in {"fetch", "reset", "push"} -> None

InitSuspend ==
  /\ jobs = <<>> /\ nextId = 1 /\ child = <<>> /\ timers = <<>>
  /\ now = 0 /\ nwrites = 0 /\ http = NoHttp /\ cursor = 0 /\ seen = <<>>
  /\ statusWrites = <<>> /\ cliRuns = 0 /\ docs = <<>> /\ manifestDisk = <<>>
  /\ checkouts = {}
  /\ gen = [pc |-> "ready", op |-> "none", since |-> 0, ops |-> 0, aborted |-> FALSE]

\* main starts an external operation and waits for it.
StartOp(op) ==
  /\ gen.pc = "ready"
  /\ gen.ops < MaxOps
  /\ gen' = [gen EXCEPT !.pc = "waiting", !.op = op, !.since = now,
                         !.ops = @ + 1, !.aborted = FALSE]
  /\ UNCHANGED <<jobs, nextId, child, timers, now, nwrites, http, cursor, seen,
                 statusWrites, cliRuns, docs, manifestDisk, checkouts>>

\* The other side answers, or fails: the operation returns or throws.
CompleteOp ==
  /\ gen.pc = "waiting"
  /\ gen' = [gen EXCEPT !.pc = "ready"]
  /\ UNCHANGED <<jobs, nextId, child, timers, now, nwrites, http, cursor, seen,
                 statusWrites, cliRuns, docs, manifestDisk, checkouts>>

\* Time passes while the run waits; a timeout that is due fires first.
Wait ==
  /\ gen.pc = "waiting"
  /\ now - gen.since < MaxPendingSteps * WaitStepMs
  /\ LET t == TimeoutMs(gen.op)
     IN IsSome(t) => now - gen.since + WaitStepMs <= Val(t)
  /\ now' = now + WaitStepMs
  /\ UNCHANGED <<jobs, nextId, child, timers, nwrites, http, cursor, seen,
                 statusWrites, gen, cliRuns, docs, manifestDisk, checkouts>>

\* The timeout of the operation fires: the operation throws.
AbortOp ==
  /\ gen.pc = "waiting"
  /\ LET t == TimeoutMs(gen.op)
     IN IsSome(t) /\ now - gen.since >= Val(t)
  /\ gen' = [gen EXCEPT !.pc = "ready", !.aborted = TRUE]
  /\ UNCHANGED <<jobs, nextId, child, timers, now, nwrites, http, cursor, seen,
                 statusWrites, cliRuns, docs, manifestDisk, checkouts>>

\* The end of main.
EndRun ==
  /\ gen.pc = "ready"
  /\ gen' = [gen EXCEPT !.pc = "exited"]
  /\ UNCHANGED <<jobs, nextId, child, timers, now, nwrites, http, cursor, seen,
                 statusWrites, cliRuns, docs, manifestDisk, checkouts>>

NextSuspend ==
  \/ \E op \in Ops : StartOp(op)
  \/ CompleteOp
  \/ Wait
  \/ AbortOp
  \/ EndRun

SpecSuspend == InitSuspend /\ [][NextSuspend]_vars

\* ------------------------------------------------- how failures are reported
\* The failures of a run: an invalid reference, a failed clone, a failed
\* generation (the model call gave up), no page generated, and an exception
\* that reaches main().catch.
Failures == {"invalid", "clonefail", "genfail", "nopages", "fatal"}

\* The failures after which the process exits with code 1 at once.
RunEnding == {"nopages", "fatal"}

\* The stream the line about a failure is written to: log() writes to stdout,
\* main().catch to stderr.
ReportStream(why) == IF why = "fatal" THEN "stderr" ELSE "stdout"

\* The text of the line about a failure (a number stands for it).
FailureLine(why) ==
  CASE why = "invalid" -> <<1>>
    [] why = "clonefail" -> <<2>>
    [] why = "genfail" -> <<3>>
    [] why = "nopages" -> <<4>>
    [] why = "fatal" -> <<5>>

\* The generator of job j meets the failure why and writes its line.
Report(j, why) ==
  /\ j \in DOMAIN child
  /\ child[j].st = "running"
  /\ gen.job \in {0, j}
  /\ Len(gen.outcomes) < MaxReports
  /\ gen' = [gen EXCEPT !.job = j, !.outcomes = Append(@, why)]
  /\ child' = [child EXCEPT
       ![j] = LET line == FailureLine(why) \o <<NL>>
                  w == IF ReportStream(why) = "stdout"
                       THEN [@ EXCEPT !.out = @ \o line]
                       ELSE [@ EXCEPT !.err = @ \o line]
              IN IF why \in RunEnding
                 THEN [w EXCEPT !.st = "exited", !.code = 1]
                 ELSE w]
  /\ http' = NoHttp
  /\ UNCHANGED <<jobs, nextId, timers, now, nwrites, cursor, seen, statusWrites,
                 cliRuns, docs, manifestDisk, checkouts>>

NextReport ==
  \/ \E body \in IsoBodies, outcome \in {"ok", "asyncfail", "throw"} :
       Submit(body, outcome)
  \/ \E j \in JobIds, why \in Failures : Report(j, why)
  \/ \E j \in JobIds, code \in ExitCodes : ChildExit(j, code)
  \/ \E j \in JobIds, n \in 1..(2 * MaxReports) : StdoutData(j, n)
  \/ \E j \in JobIds, n \in 1..(2 * MaxReports) : StderrData(j, n)
  \/ \E j \in JobIds : SpawnFailure(j)
  \/ \E j \in JobIds : CloseEvent(j)

SpecReport == Init /\ [][NextReport]_vars

\* The manifest on its own: starting from any manifest of at most two entries
\* with distinct fullNames, a sequence of runs that each generate one reference
\* (readManifest, upsertManifestEntry, writeManifest), at increasing times.
ManifestNames == {Tok_ax, Tok_bx, Tok_ay}

InitialManifests ==
  {<<>>} \cup {<<ManifestEntry(f, 0)>> : f \in ManifestNames}
  \cup {<<ManifestEntry(p[1], 0), ManifestEntry(p[2], 0)>> :
          p \in {q \in ManifestNames \X ManifestNames : q[1] # q[2]}}

InitUpsert ==
  /\ jobs = <<>> /\ nextId = 1 /\ child = <<>> /\ timers = <<>>
  /\ now = 1 /\ nwrites = 0 /\ http = NoHttp /\ cursor = 0 /\ seen = <<>>
  /\ statusWrites = <<>> /\ gen = IdleGen /\ cliRuns = 0 /\ docs = <<>>
  /\ checkouts = {}
  /\ manifestDisk \in InitialManifests

UpsertRun(fullName) ==
  /\ now <= MaxUpserts
  /\ manifestDisk' = upsertManifestEntry(manifestDisk, ManifestEntry(fullName, now))
  /\ now' = now + 1
  /\ http' = [op |-> "upsert", fullName |-> fullName, ts |-> now]
  /\ UNCHANGED <<jobs, nextId, child, timers, nwrites, cursor, seen, statusWrites,
                 gen, cliRuns, docs, checkouts>>

NextUpsert == \E f \in ManifestNames : UpsertRun(f)

SpecUpsert == InitUpsert /\ [][NextUpsert]_vars

\* ------------------------------------------------------ the model client
\* One call of callCerebras on its own.  gen holds the locals of the call:
\* attempt, lastError, and for the record the outcome of every attempt made
\* (results) and every delay slept (delays); now is the clock, in ms.
MAX_ATTEMPTS == 3
BACKOFF_UNIT_MS == 2000

\* What one attempt can end in: a usable answer, or one of the failures thrown
\* inside the try (a non-success status, an empty content field, the 2-minute
\* timeout, a network error, a body that is no JSON).
AttemptFailures == {"http", "empty", "timeout", "network", "badjson"}
AttemptOutcomes == {"ok"} \cup AttemptFailures

\* The error thrown by the failed attempt k.
AttemptError(kind, k) == <<kind, k>>

BackoffMsBug(attempt) == BACKOFF_UNIT_MS

\* setTimeout(r, 2000 * attempt).
BackoffMs(attempt) == BACKOFF_UNIT_MS * attempt

\* `throw lastError` after the loop: the error caught last.
ThrownError(errors) == errors[Len(errors)]

InitClient ==
  /\ jobs = <<>> /\ nextId = 1 /\ child = <<>> /\ timers = <<>>
  /\ now = 0 /\ nwrites = 0 /\ http = NoHttp /\ cursor = 0 /\ seen = <<>>
  /\ statusWrites = <<>> /\ cliRuns = 0 /\ docs = <<>> /\ manifestDisk = <<>>
  /\ checkouts = {}
  /\ gen = [pc |-> "attempt", attempt |-> 1, errors |-> <<>>, results |-> <<>>,
            delays |-> <<>>, warnings |-> 0, thrown |-> None]

\* One pass of the loop body: the fetch and the checks of its answer, then
\* either the return or the catch, which before the last attempt writes a
\* warning and sets the backoff timer; after the catch of the last attempt the
\* loop ends and lastError is thrown.
ClientAttempt(outcome) ==
  /\ gen.pc = "attempt"
  /\ LET g == [gen EXCEPT !.results = Append(@, outcome)]
     IN IF outcome = "ok"
        THEN gen' = [g EXCEPT !.pc = "returned"]
        ELSE LET h == [g EXCEPT !.errors = Append(@, AttemptError(outcome, gen.attempt))]
             IN IF gen.attempt < MAX_ATTEMPTS
                THEN gen' = [h EXCEPT !.pc = "sleep", !.warnings = @ + 1,
                                      !.delays = Append(@, BackoffMs(gen.attempt))]
                ELSE gen' = [h EXCEPT !.pc = "thrown",
                                      !.thrown = Some(ThrownError(h.errors))]
  /\ UNCHANGED <<jobs, nextId, child, timers, now, nwrites, http, cursor, seen,
                 statusWrites, cliRuns, docs, manifestDisk, checkouts>>

\* The backoff timer fires and the loop goes to the next attempt.
ClientWake ==
  /\ gen.pc = "sleep"
  /\ now' = now + gen.delays[Len(gen.delays)]
  /\ gen' = [gen EXCEPT !.pc = "attempt", !.attempt = @ + 1]
  /\ UNCHANGED <<jobs, nextId, child, timers, nwrites, http, cursor, seen,
                 statusWrites, cliRuns, docs, manifestDisk, checkouts>>

NextClient ==
  \/ \E outcome \in AttemptOutcomes : ClientAttempt(outcome)
  \/ ClientWake

SpecClient == InitClient /\ [][NextClient]_vars

\* --------------------------------------------------------- the classifier
\* A checkout is the set of the features detectType looks at.  A notebook or a
\* .tf file is "near" when findFile(repoPath, ..., 2) visits its directory (at
\* most two levels below the root, under no dot-directory and no node_modules)
\* and "deep" otherwise; "m:<name>" says that one of the package files
\* mentions <name> in its first 4000 characters; a directory is populated or
\* empty, or unreadable (it exists and readdirSync on it throws); the root
\* directory itself may be unreadable; package.json may be unreadable
\* (readFileSync throws) or hold text that is no JSON.  The mentions "m:<name>"
\* are placed in requirements.txt.  README.md and main.py (a candidate source
\* file of the types ml, api and generic) are readable or unreadable.
Features ==
  {"nb:near", "nb:deep", "m:torch",
   "lerna.json", "packages:populated", "packages:empty",
   "tf:near", "tf:deep", "Dockerfile", "docker-compose.yml", "docker-compose.yaml",
   "k8s:populated", "workflows:populated",
   "m:'react'", "m:flask", "m:express",
   "bin:populated", "m:commander",
   "pkg:main", "cargo:[lib]",
   "root:unreadable", "packages:unreadable", "pkg:unreadable", "pkg:badjson",
   "README.md", "README.md:unreadable", "main.py", "main.py:unreadable"}

\* The states of one directory, and of package.json, exclude one another.
Exclusive ==
  {{"packages:populated", "packages:empty", "packages:unreadable"},
   {"pkg:main", "pkg:unreadable", "pkg:badjson"},
   {"README.md", "README.md:unreadable"}, {"main.py", "main.py:unreadable"}}

\* The sets of at most n features.
RECURSIVE FeatureSets(_)
FeatureSets(n) ==
  IF n = 0 THEN {{}}
  ELSE LET smaller == FeatureSets(n - 1)
       IN smaller \cup {s \cup {f} : s \in smaller, f \in Features}

Checkouts ==
  {c \in FeatureSets(MaxFeatures) :
     \A group \in Exclusive : Cardinality(c \cap group) <= 1}

\* has(name) and hasDir(name) of detectType.
has(c, name) ==
  \/ name \in c \/ (name \o ":populated") \in c \/ (name \o ":empty") \in c
  \/ (name \o ":unreadable") \in c
\* readdirSync(...).length > 0 inside try, `catch { return false }`.
hasDir(c, name) == (name \o ":populated") \in c

\* findFile(repoPath, n => n.endsWith(ext), 2): `catch { return false }` when
\* the root cannot be listed.
findFile(c, kind) == "root:unreadable" \notin c /\ (kind \o ":near") \in c

\* pkgMatches(pattern), for the patterns of detectType.
pkgMatchesMl(c) == "m:torch" \in c
pkgMatchesWeb(c) == c \cap {"m:'react'", "m:flask"} # {}
pkgMatchesFrontend(c) == "m:'react'" \in c
pkgMatchesApi(c) == c \cap {"m:flask", "m:express"} # {}
pkgMatchesCli(c) == "m:commander" \in c

\* The conditions of detectType, in the order of the source.
RuleMl(c) == findFile(c, "nb") \/ pkgMatchesMl(c)
RuleMonorepo(c) == has(c, "lerna.json") \/ hasDir(c, "packages")
RuleInfra(c) ==
  \/ findFile(c, "tf")
  \/ /\ \/ has(c, "Dockerfile") \/ has(c, "docker-compose.yml")
        \/ has(c, "docker-compose.yaml") \/ hasDir(c, "k8s")
        \/ (hasDir(c, "workflows") /\ ~pkgMatchesWeb(c))
     /\ (has(c, "Dockerfile") \/ has(c, "docker-compose.yml"))
RuleFrontend(c) == pkgMatchesFrontend(c)
RuleApi(c) == pkgMatchesApi(c)
RuleCli(c) == hasDir(c, "bin") \/ pkgMatchesCli(c)
RuleLibrary(c) == "pkg:main" \in c \/ "cargo:[lib]" \in c

\* The calls of analyzeRepo and detectType that throw on checkout c, each named
\* by the function that makes it; a call of detectType counts only if the chain
\* of returns gets to it.
ThrowingCalls(c) ==
  {"findFile.readdirSync" : x \in {y \in {1} : "root:unreadable" \in c}}
  \cup {"readFileSafe.readFileSync" :
          x \in {y \in {1} : "pkg:unreadable" \in c /\ ~findFile(c, "nb")}}
  \cup {"dirTree.readdirSync" : x \in {y \in {1} : "root:unreadable" \in c}}
  \cup {"readFileSafe.readFileSync" :
          x \in {y \in {1} : "README.md:unreadable" \in c}}
  \cup {"hasDir.readdirSync" :
          x \in {y \in {1} : /\ "packages:unreadable" \in c
                              /\ ~RuleMl(c) /\ ~has(c, "lerna.json")}}
  \cup {"JSON.parse" :
          x \in {y \in {1} : /\ "pkg:badjson" \in c
                              /\ ~RuleMl(c) /\ ~RuleMonorepo(c) /\ ~RuleInfra(c)
                              /\ ~RuleFrontend(c) /\ ~RuleApi(c) /\ ~RuleCli(c)}}

\* A mutant of InTry: JSON.parse outside any try.
InTryBug(call) == call # "JSON.parse"

\* The call is enclosed in a try whose catch swallows the exception.
InTry(call) ==
  call \in {"findFile.readdirSync", "readFileSafe.readFileSync",
             "hasDir.readdirSync", "JSON.parse", "dirTree.readdirSync"}

\* The exceptions that leave analyzeRepo.
Escapes(c) == {call \in ThrowingCalls(c) : ~InTry(call)}

detectTypeBug(c) ==
  IF RuleMonorepo(c) THEN "monorepo"
  ELSE IF RuleInfra(c) THEN "infra"
  ELSE IF RuleMl(c) THEN "ml"
  ELSE IF RuleFrontend(c) THEN "frontend"
  ELSE IF RuleApi(c) THEN "api"
  ELSE IF RuleCli(c) THEN "cli"
  ELSE IF RuleLibrary(c) THEN "library"
  ELSE "generic"

detectType(c) ==
  IF RuleMl(c) THEN "ml"
  ELSE IF RuleMonorepo(c) THEN "monorepo"
  ELSE IF RuleInfra(c) THEN "infra"
  ELSE IF RuleFrontend(c) THEN "frontend"
  ELSE IF RuleApi(c) THEN "api"
  ELSE IF RuleCli(c) THEN "cli"
  ELSE IF RuleLibrary(c) THEN "library"
  ELSE "generic"

\* A mutant of readFileSafe: the error's code in place of null.
readFileSafeBug(c, name) ==
  IF name \in c THEN Some(name)
  ELSE IF (name \o ":unreadable") \in c THEN Some("EACCES") ELSE None

\* readFileSafe(join(repoPath, name), n): the text of the file (here its name
\* stands for it), null when readFileSync throws.
readFileSafe(c, name) == IF name \in c THEN Some(name) ELSE None

\* dirTree(repoPath, 2): '' when the root cannot be listed or shows no entry.
dirTree(c) ==
  IF "root:unreadable" \in c \/ c \subseteq {"root:unreadable", "workflows:populated"}
  THEN "" ELSE "tree"

\* The first package file of analyzeRepo that readFileSafe returns text for.
PackageFileOf(c) ==
  IF c \cap {"pkg:main", "pkg:badjson"} # {} THEN "package.json"
  ELSE IF "cargo:[lib]" \in c THEN "Cargo.toml"
  ELSE IF c \cap {"m:torch", "m:'react'", "m:flask", "m:express", "m:commander"} # {}
       THEN "requirements.txt"
  ELSE ""

\* candidates[type]: of the files the model has, main.py for ml, api, generic.
Candidates(type) == IF type \in {"ml", "api", "generic"} THEN <<"main.py">> ELSE <<>>

\* The loop over the candidates: name and content of those that can be read.
SourceFilesOf(c, names) ==
  SelectSeq(names, LAMBDA n : readFileSafe(c, n) # None)

analyzeRepo(c) ==
  LET readme == readFileSafe(c, "README.md")
      type == detectType(c)
  IN [type |-> type,
      structure |-> dirTree(c),
      readme |-> IF readme # None THEN readme[1] ELSE "",
      packageFile |-> PackageFileOf(c),
      packageContent |-> PackageFileOf(c),
      sourceFiles |-> SourceFilesOf(c, Candidates(type))]

\* buildContext(analysis, isExternal): the sections, each by its heading.
buildContext(analysis, isExternal) ==
  <<"## Repository">>
  \o (IF isExternal THEN <<"EXTERNAL REPOSITORY">> ELSE <<>>)
  \o <<"## Detected Project Type">>
  \o <<IF analysis.structure # "" THEN "## Directory Structure"
       ELSE "## Directory Structure (empty)">>
  \o <<IF analysis.readme # "" THEN "## README (truncated)"
       ELSE "## README (No README found)">>
  \o (IF analysis.packageContent # "" THEN <<"## " \o analysis.packageFile>> ELSE <<>>)
  \o [k \in 1..Len(analysis.sourceFiles) |-> "## " \o analysis.sourceFiles[k]]

\* analyzeRepo on one checkout: gen holds the checkout and the label.
InitClassify ==
  /\ jobs = <<>> /\ nextId = 1 /\ child = <<>> /\ timers = <<>>
  /\ now = 0 /\ nwrites = 0 /\ http = NoHttp /\ cursor = 0 /\ seen = <<>>
  /\ statusWrites = <<>> /\ cliRuns = 0 /\ docs = <<>> /\ manifestDisk = <<>>
  /\ checkouts = {}
  /\ \E c \in Checkouts :
       gen = [pc |-> "cloned", repoPath |-> c, type |-> None, evals |-> 0,
              analysis |-> None, context |-> None]

\* One evaluation of detectType on the checkout, which is left as it is; the
\* model evaluates it at most MaxEvals times.
Classify ==
  /\ gen.pc \in {"cloned", "analysed"}
  /\ gen.evals < MaxEvals
  /\ gen' = IF Escapes(gen.repoPath) # {}
            THEN [gen EXCEPT !.pc = "raised", !.evals = @ + 1]
            ELSE [gen EXCEPT !.pc = "analysed", !.evals = @ + 1,
                             !.type = Some(detectType(gen.repoPath))]
  /\ UNCHANGED <<jobs, nextId, child, timers, now, nwrites, http, cursor, seen,
                 statusWrites, cliRuns, docs, manifestDisk, checkouts>>

\* analyzeRepo(cloneDir, owner, repo) and buildContext(analysis, isExternal).
Analyse(isExternal) ==
  /\ gen.pc = "analysed"
  /\ gen' = IF Escapes(gen.repoPath) # {}
            THEN [gen EXCEPT !.pc = "raised"]
            ELSE LET analysis == analyzeRepo(gen.repoPath)
                 IN [gen EXCEPT !.pc = "context",
                                !.analysis = Some(analysis),
                                !.context = Some(buildContext(analysis, isExternal))]
  /\ UNCHANGED <<jobs, nextId, child, timers, now, nwrites, http, cursor, seen,
                 statusWrites, cliRuns, docs, manifestDisk, checkouts>>

NextClassify == Classify \/ \E isExternal \in BOOLEAN : Analyse(isExternal)

SpecClassify == InitClassify /\ [][NextClassify]_vars

\* ------------------------------------------------------------ generatePage
\* html.slice(0, 12000) in the refinement prompt.
SLICE_CHARS == 12000

\* A document is known by the round whose response it came in and its length.
\* A response holds a document, wrapped in a code fence, starting at a
\* doctype after some preamble, or bare; pre is the length of the text before
\* the document.
DocLens == {40, SLICE_CHARS, SLICE_CHARS + 500}
Contents(round) ==
  [id : {round}, len : DocLens, wrap : {"fence", "doctype", "raw"}, pre : {0, 7}]

\* The iteration counts parseArgs can give: a negative one, and 1..MaxRounds.
IterationCounts == {0 - 2} \cup (1..MaxRounds)

\* extractHTML(content): the text inside the fence, or from the doctype on, or
\* the whole content.
extractHTML(content) ==
  IF content.wrap \in {"fence", "doctype"}
  THEN [id |-> content.id, len |-> content.len]
  ELSE [id |-> content.id, len |-> content.pre + content.len]

\* A mutant of SliceDoc: the whole document.
SliceDocBug(doc, n) == doc

\* doc.slice(0, n).
SliceDoc(doc, n) == [doc EXCEPT !.len = Min(@, n)]

\* INITIAL_PROMPT: the context (which names the external owner when
\* isExternal), the template, and the badge requirement when isExternal.
INITIAL_PROMPT(context, isExternal) ==
  [round |-> 1, context |-> Some(context), current |-> None, badge |-> isExternal]

\* A mutant of refinePrompt: no badge requirement.
refinePromptBug(html, i, isExternal) ==
  [round |-> i, context |-> None, current |-> Some(SliceDoc(html, SLICE_CHARS)),
   badge |-> FALSE]

\* refinePrompt of round i: the first 12000 characters of the current document
\* and the badge requirement when isExternal.
refinePrompt(html, i, isExternal) ==
  [round |-> i, context |-> None, current |-> Some(SliceDoc(html, SLICE_CHARS)),
   badge |-> isExternal]

InitPage ==
  /\ jobs = <<>> /\ nextId = 1 /\ child = <<>> /\ timers = <<>>
  /\ now = 0 /\ nwrites = 0 /\ http = NoHttp /\ cursor = 0 /\ seen = <<>>
  /\ statusWrites = <<>> /\ cliRuns = 0 /\ docs = <<>> /\ manifestDisk = <<>>
  /\ checkouts = {}
  /\ \E isExternal \in BOOLEAN, iterations \in IterationCounts :
       gen = [pc |-> "start", isExternal |-> isExternal, iterations |-> iterations,
              i |-> 0, requests |-> <<>>, responses |-> <<>>, html |-> None,
              returned |-> None]

\* generatePage up to its first await: the request of round 1 is sent.
PageStart ==
  /\ gen.pc = "start"
  /\ LET context == buildContext(analyzeRepo({}), gen.isExternal)
     IN gen' = [gen EXCEPT !.pc = "await", !.i = 1,
                           !.requests = <<INITIAL_PROMPT(context, gen.isExternal)>>]
  /\ UNCHANGED <<jobs, nextId, child, timers, now, nwrites, http, cursor, seen,
                 statusWrites, cliRuns, docs, manifestDisk, checkouts>>

\* callCerebras returns content: html is replaced by the document extracted
\* from it; the loop sends the request of the next round or returns html.
PageResponse(content) ==
  /\ gen.pc = "await"
  /\ LET html == extractHTML(content)
         g == [gen EXCEPT !.responses = Append(@, content), !.html = Some(html)]
     IN gen' = IF gen.i + 1 <= gen.iterations /\ gen.i + 1 >= 2
               THEN [g EXCEPT !.i = @ + 1,
                              !.requests =
                                 Append(@, refinePrompt(html, gen.i + 1, gen.isExternal))]
               ELSE [g EXCEPT !.pc = "returned", !.returned = Some(html)]
  /\ UNCHANGED <<jobs, nextId, child, timers, now, nwrites, http, cursor, seen,
                 statusWrites, cliRuns, docs, manifestDisk, checkouts>>

\* callCerebras throws: generatePage throws.
PageThrow ==
  /\ gen.pc = "await"
  /\ gen' = [gen EXCEPT !.pc = "thrown"]
  /\ UNCHANGED <<jobs, nextId, child, timers, now, nwrites, http, cursor, seen,
                 statusWrites, cliRuns, docs, manifestDisk, checkouts>>

NextPage ==
  \/ PageStart
  \/ \E content \in Contents(gen.i) : PageResponse(content)
  \/ PageThrow

SpecPage == InitPage /\ [][NextPage]_vars

\* -------------------------------------------------------------- extractHTML
\* A response text is a sequence of symbols: "T" is a run of three backticks,
\* "H" the word html (or htm), "D" the text <!DOCTYPE html, "s" a white-space
\* character and "x" any other character.  Backticks come in runs of exactly
\* three, so no two "T" are adjacent, and callCerebras never returns an empty
\* content.
Symbols == {"T", "H", "D", "s", "x"}

ResponseTexts ==
  {c \in UNION {[1..n -> Symbols] : n \in 1..MaxContentLen} :
     \A i \in 1..(Len(c) - 1) : ~(c[i] = "T" /\ c[i + 1] = "T")}

\* Positions of symbol a in text c at or after position p.
Positions(c, a, p) == {i \in p..Len(c) : c[i] = a}

MinOf(S) == CHOOSE i \in S : \A j \in S : i <= j
MaxOf(S) == CHOOSE i \in S : \A j \in S : i >= j

\* String.prototype.trim: leading and trailing white space removed.
trim(c) ==
  LET solid == {i \in 1..Len(c) : c[i] # "s"}
  IN IF solid = {} THEN <<>> ELSE SubSeq(c, MinOf(solid), MaxOf(solid))

\* content.match(/```html?\s*([\s\S]+?)```/i): the leftmost opening fence
\* that some later closing fence can end with at least one character in
\* between; \s* takes the longest run of white space that still leaves a
\* match, and the group is the shortest text of at least one character up to
\* the next three backticks.
fenced(c) ==
  LET opens == {i \in Positions(c, "T", 1) :
                  /\ i + 1 <= Len(c) /\ c[i + 1] = "H"
                  /\ Positions(c, "T", i + 3) # {}}
  IN IF opens = {} THEN None
     ELSE LET i == MinOf(opens)
              skips == {k \in 0..(Len(c) - i - 1) :
                          /\ \A q \in (i + 2)..(i + 1 + k) : c[q] = "s"
                          /\ Positions(c, "T", i + 3 + k) # {}}
              p == i + 2 + MaxOf(skips)
          IN Some(SubSeq(c, p, MinOf(Positions(c, "T", p + 1)) - 1))

\* content.match(/(<!DOCTYPE html[\s\S]+)/i): from the first marker that has
\* at least one character after it to the end of the text.
doctype(c) ==
  LET marks == {i \in Positions(c, "D", 1) : i < Len(c)}
  IN IF marks = {} THEN None ELSE Some(SubSeq(c, MinOf(marks), Len(c)))

\* A mutant of extractHTMLText: the doctype marker is tried before the fence.
extractHTMLTextBug(content) ==
  IF IsSome(doctype(content)) THEN trim(Val(doctype(content)))
  ELSE IF IsSome(fenced(content)) THEN trim(Val(fenced(content)))
  ELSE trim(content)

\* extractHTML(content) on texts.
extractHTMLText(content) ==
  IF IsSome(fenced(content)) THEN trim(Val(fenced(content)))
  ELSE IF IsSome(doctype(content)) THEN trim(Val(doctype(content)))
  ELSE trim(content)

InitExtract ==
  /\ jobs = <<>> /\ nextId = 1 /\ child = <<>> /\ timers = <<>>
  /\ now = 0 /\ nwrites = 0 /\ http = NoHttp /\ cursor = 0 /\ seen = <<>>
  /\ statusWrites = <<>> /\ cliRuns = 0 /\ docs = <<>> /\ manifestDisk = <<>>
  /\ checkouts = {}
  /\ \E content \in ResponseTexts :
       gen = [pc |-> "call", content |-> content, html |-> None]

\* let html = extractHTML(r1.content)
Extract ==
  /\ gen.pc = "call"
  /\ gen' = [gen EXCEPT !.pc = "done", !.html = Some(extractHTMLText(gen.content))]
  /\ UNCHANGED <<jobs, nextId, child, timers, now, nwrites, http, cursor, seen,
                 statusWrites, cliRuns, docs, manifestDisk, checkouts>>

NextExtract == Extract

SpecExtract == InitExtract /\ [][NextExtract]_vars

\* ------------------------------------------------------------------ dirTree
\* .slice(0, 40) of dirTree.
TREE_CAP == 40
\* dirTree(repoPath, 2) in analyzeRepo.
TREE_DEPTH == 2

\* A directory is what readdirSync gives for it: whether it can be listed,
\* and its entries in directory order as runs of n like entries.  An entry is
\* a plain file, a name starting with a dot, a name of the IGNORE set, or a
\* directory (sub is then its content; the n directories of a run have like
\* contents).
RunLengths == {1, TREE_CAP + 1}

FileRuns ==
  {[kind |-> k, n |-> n, sub |-> None] : k \in {"file"}, n \in RunLengths}
  \cup {[kind |-> k, n |-> 1, sub |-> None] : k \in {"dot", "ignored"}}

RunsOver(subs) ==
  FileRuns \cup {[kind |-> "dir", n |-> n, sub |-> Some(d)] : n \in RunLengths, d \in subs}

DirsOver(subs, maxRuns) ==
  {[readable |-> FALSE, runs |-> <<>>]}
  \cup {[readable |-> TRUE, runs |-> r] :
          r \in UNION {[1..k -> RunsOver(subs)] : k \in 0..maxRuns}}

\* Directories three levels below the root, two levels below (of one run at
\* most), and the roots.
Level3Dirs ==
  {[readable |-> TRUE, runs |-> <<>>],
   [readable |-> TRUE, runs |-> <<[kind |-> "file", n |-> 1, sub |-> None]>>]}
Level2Dirs == DirsOver(Level3Dirs, 1)
RootDirs == DirsOver(Level2Dirs, MaxRuns)

\* A mutant of SliceRuns: no cap.
SliceRunsBug(runs, n) == runs

\* entries.slice(0, n) on runs.
RECURSIVE SliceRuns(_, _)
SliceRuns(runs, n) ==
  IF runs = <<>> \/ n <= 0 THEN <<>>
  ELSE <<[Head(runs) EXCEPT !.n = Min(@, n)]>>
       \o SliceRuns(Tail(runs), n - Min(Head(runs).n, n))

\* dirTree(dir, maxDepth, depth): the lines of the rendering, one run of
\* lines for a run of entries, each directory line followed by the lines of
\* its own listing.
RECURSIVE dirTreeLines(_, _, _)
dirTreeLines(dir, maxDepth, depth) ==
  IF depth >= maxDepth \/ ~dir.readable THEN <<>>
  ELSE LET filtered ==
             SliceRuns(SelectSeq(dir.runs, LAMBDA e : e.kind \notin {"dot", "ignored"}),
                       TREE_CAP)
       IN [i \in 1..Len(filtered) |->
             [kind |-> filtered[i].kind, n |-> filtered[i].n,
              sub |-> IF filtered[i].kind = "dir" /\ depth < maxDepth - 1
                      THEN dirTreeLines(Val(filtered[i].sub), maxDepth, depth + 1)
                      ELSE <<>>]]

InitTree ==
  /\ jobs = <<>> /\ nextId = 1 /\ child = <<>> /\ timers = <<>>
  /\ now = 0 /\ nwrites = 0 /\ http = NoHttp /\ cursor = 0 /\ seen = <<>>
  /\ statusWrites = <<>> /\ cliRuns = 0 /\ docs = <<>> /\ manifestDisk = <<>>
  /\ checkouts = {}
  /\ \E root \in RootDirs : gen = [pc |-> "call", root |-> root, structure |-> None]

\* analysis.structure = dirTree(repoPath, 2)
RenderTree ==
  /\ gen.pc = "call"
  /\ gen' = [gen EXCEPT !.pc = "done",
                        !.structure = Some(dirTreeLines(gen.root, TREE_DEPTH, 0))]
  /\ UNCHANGED <<jobs, nextId, child, timers, now, nwrites, http, cursor, seen,
                 statusWrites, cliRuns, docs, manifestDisk, checkouts>>

NextTree == RenderTree

SpecTree == InitTree /\ [][NextTree]_vars

\* --------------------------------------------------------- overlapping runs
\* Every accepted POST spawns its own generator process at once, so the
\* processes of two jobs run side by side and their system calls interleave.
\* Each process here handles one reference.  gen.runs[r] is process r: its
\* position, its reference, the manifest it holds in memory and whether it
\* started while another process was in flight.
OverlapRuns == 1..MaxOverlap

IdleRun ==
  [pc |-> "idle", fullName |-> <<>>, manifest |-> <<>>, overlapped |-> FALSE,
   wrote |-> FALSE]

InFlight(run) == run.pc \in {"started", "checkout", "generate", "write", "manifest"}

InitOverlap ==
  /\ jobs = <<>> /\ nextId = 1 /\ child = <<>> /\ timers = <<>>
  /\ now = 0 /\ nwrites = 0 /\ http = NoHttp /\ cursor = 0 /\ seen = <<>>
  /\ statusWrites = <<>> /\ cliRuns = 0 /\ docs = <<>>
  /\ checkouts = {}
  /\ manifestDisk \in InitialManifests
  /\ gen = [runs |-> [r \in OverlapRuns |-> IdleRun], initial |-> manifestDisk]

\* spawn('node', [GENERATE_SCRIPT, ...repos]) and main up to readManifest().
RunStart(r, fullName) ==
  /\ gen.runs[r].pc = "idle"
  /\ gen' = [gen EXCEPT !.runs[r] =
               [@ EXCEPT !.pc = "started", !.fullName = fullName,
                         !.manifest = manifestDisk,
                         !.overlapped = \E o \in OverlapRuns \ {r} : InFlight(gen.runs[o])]]
  /\ UNCHANGED <<jobs, nextId, child, timers, now, nwrites, http, cursor, seen,
                 statusWrites, cliRuns, docs, manifestDisk, checkouts>>

\* existsSync(cloneDir) and the first git command on it: the process is now
\* at work in the checkout directory.
BeginCheckout(r) ==
  /\ gen.runs[r].pc = "started"
  /\ gen' = [gen EXCEPT !.runs[r].pc = "checkout",
                        !.runs = [o \in OverlapRuns |->
                                    IF o # r /\ InFlight(gen.runs[o])
                                    THEN [@[o] EXCEPT !.overlapped = TRUE] ELSE @[o]]]
  /\ UNCHANGED <<jobs, nextId, child, timers, now, nwrites, http, cursor, seen,
                 statusWrites, cliRuns, docs, manifestDisk, checkouts>>

\* The git commands and analyzeRepo are over: the checkout is there and has
\* been read, or the clone failed and the reference is skipped (exit 1).
EndCheckout(r, acquired) ==
  /\ gen.runs[r].pc = "checkout"
  /\ gen' = [gen EXCEPT !.runs[r].pc = IF acquired THEN "generate" ELSE "failed"]
  /\ checkouts' = IF acquired THEN checkouts \cup {CloneDir(gen.runs[r].fullName)}
                  ELSE checkouts
  /\ UNCHANGED <<jobs, nextId, child, timers, now, nwrites, http, cursor, seen,
                 statusWrites, cliRuns, docs, manifestDisk>>

\* await generatePage(...): html, or "Generation failed" and exit 1.
RunGenerate(r, ok) ==
  /\ gen.runs[r].pc = "generate"
  /\ gen' = [gen EXCEPT !.runs[r].pc = IF ok THEN "write" ELSE "failed"]
  /\ UNCHANGED <<jobs, nextId, child, timers, now, nwrites, http, cursor, seen,
                 statusWrites, cliRuns, docs, manifestDisk, checkouts>>

\* writeFileSync(outPath, html) and upsertManifestEntry(manifest, entry).
RunWriteDocument(r) ==
  /\ gen.runs[r].pc = "write"
  /\ LET entry == ManifestEntry(gen.runs[r].fullName, r)
     IN /\ docs' = [p \in DOMAIN docs \cup {entry.path} |->
                      IF p = entry.path THEN [fullName |-> entry.fullName] ELSE docs[p]]
        /\ gen' = [gen EXCEPT !.runs[r].pc = "manifest", !.runs[r].wrote = TRUE,
                              !.runs[r].manifest = upsertManifestEntry(@, entry)]
  /\ UNCHANGED <<jobs, nextId, child, timers, now, nwrites, http, cursor, seen,
                 statusWrites, cliRuns, manifestDisk, checkouts>>

\* writeManifest(manifest): the file is replaced by the process's copy.
RunWriteManifest(r) ==
  /\ gen.runs[r].pc = "manifest"
  /\ manifestDisk' = gen.runs[r].manifest
  /\ gen' = [gen EXCEPT !.runs[r].pc = "done"]
  /\ UNCHANGED <<jobs, nextId, child, timers, now, nwrites, http, cursor, seen,
                 statusWrites, cliRuns, docs, checkouts>>

NextOverlap ==
  \E r \in OverlapRuns :
    \/ \E fullName \in ManifestNames : RunStart(r, fullName)
    \/ BeginCheckout(r)
    \/ \E acquired \in BOOLEAN : EndCheckout(r, acquired)
    \/ \E ok \in BOOLEAN : RunGenerate(r, ok)
    \/ RunWriteDocument(r)
    \/ RunWriteManifest(r)

SpecOverlap == InitOverlap /\ [][NextOverlap]_vars

\* ================================================================== claims
Terminal(status) == status \in {"success", "error"}

\* The fragments of child text in a log sequence, in log order.
RECURSIVE ChildText(_)
ChildText(logs) ==
  IF logs = <<>> THEN <<>>
  ELSE (IF Head(logs).type \in {"stdout", "stderr"} THEN Head(logs).message ELSE <<>>)
       \o ChildText(Tail(logs))

\* ---- C1
\* C1 as stated: a job's status field is assigned at most once (running to
\* success or running to error) and never again.
C1_StatusWrittenOnce == \A j \in DOMAIN statusWrites : statusWrites[j] <= 1

\* C1 amended: the value of a job's status changes only from running to success
\* or error, hence at most once, and a terminal value never changes (error is
\* never replaced by success); when one turn of the event loop assigns it twice
\* (the 'error' and the 'close' of a failed spawn), both assignments write error.
C1_StatusValueFinal ==
  [][\A j \in DOMAIN jobs \cap DOMAIN jobs' :
       /\ jobs'[j].status # jobs[j].status =>
            jobs[j].status = "running" /\ Terminal(jobs'[j].status)
       /\ statusWrites'[j] > statusWrites[j] => Terminal(jobs'[j].status)
       /\ statusWrites[j] > 0 => jobs'[j].status = jobs[j].status
       /\ statusWrites'[j] = statusWrites[j] + 2 => jobs'[j].status = "error"]_vars

\* The failed spawn: the status was assigned twice and is error.
C1_Witness ==
  \E j \in DOMAIN jobs : statusWrites[j] = 2 /\ jobs[j].status = "error"

\* ---- C2
\* C2 as stated: if the run of a job produced at least one document, the process
\* exits with code 0 and the job ends in success, whatever failed elsewhere.
C2_SuccessIfAnyDocument ==
  \A j \in DOMAIN jobs :
    (gen.job = j /\ Terminal(jobs[j].status) /\ Len(gen.generated) >= 1) =>
      gen.code = 0 /\ jobs[j].status = "success"

\* C2 amended: a run exits with code 0 iff it produced at least one document and
\* no later document write and not the manifest write failed; invalid
\* references, clone failures, model failures and a push failure do not matter;
\* and the job of a run that has ended and closed is success iff the code is 0.
C2_SuccessIffGeneratedAndPersisted ==
  gen.pc = "exited" =>
    /\ gen.code = 0 <=> (Len(gen.generated) >= 1 /\ ~gen.persistFailed)
    /\ \A j \in DOMAIN jobs :
         (gen.job = j /\ child[j].st = "closed") =>
           /\ Terminal(jobs[j].status)
           /\ jobs[j].status = "success" <=> gen.code = 0

\* A job that ended in success although a reference of its batch was skipped
\* and the push failed.
C2_Witness ==
  \E j \in DOMAIN jobs :
    /\ gen.job = j
    /\ jobs[j].status = "success"
    /\ Len(gen.generated) < Len(gen.repoArgs)
    /\ gen.pushFailed

\* ---- C3
\* C3: when POST /api/generate accepts a body, the job it has just stored is
\* running, has no log line and no finishedAt; and when the response carries
\* the job id, the generation process has not finished (nor been waited for).
C3_AcceptedJobFresh ==
  (http.op = "generate" /\ http.res.code # 400) =>
    LET j == nextId - 1
    IN /\ j \in DOMAIN jobs
       /\ jobs[j].status = "running"
       /\ jobs[j].logs = <<>>
       /\ jobs[j].finishedAt = None
       /\ http.res.code = 200 =>
            /\ http.res.jobId = j
            /\ j \in DOMAIN child
            /\ child[j].st \in {"running", "spawnfail"}

\* The id has been returned and the process is running.
C3_Witness ==
  /\ http.op = "generate"
  /\ http.res.code = 200
  /\ child[http.res.jobId].st = "running"
  /\ jobs[http.res.jobId].status = "running"

\* ---- C4
\* Cursor strings that hold no number.
UnparsableCursors == {Some(<<>>), Some(<<"z">>)}

\* C4: a poll of a stored job holding m lines with since=k, 0 <= k <= m, answers
\* the last m-k lines in stored order, totalLogs=m, the status, startedAt and
\* finishedAt (null while running); no cursor or an unparsable one acts as k=0.
C4_PollSlice ==
  (http.op = "poll" /\ http.id \in DOMAIN jobs) =>
    LET job == jobs[http.id]
        m   == Len(job.logs)
        res == http.res
    IN /\ res.code = 200
       /\ res.totalLogs = m
       /\ res.status = job.status
       /\ res.startedAt = job.startedAt
       /\ res.finishedAt = job.finishedAt
       /\ job.status = "running" => res.finishedAt = None
       /\ \A k \in 0..m :
            http.since = Some(ToDec(k)) =>
              res.logs = [i \in 1..(m - k) |-> job.logs[k + i]]
       /\ (http.since = None \/ http.since \in UnparsableCursors) =>
            res.logs = job.logs

\* A poll with since=1 of a job holding two lines answers the second line.
C4_Witness ==
  /\ http.op = "poll"
  /\ http.id \in DOMAIN jobs
  /\ http.since = Some(<<"1">>)
  /\ Len(jobs[http.id].logs) = 2
  /\ http.res.logs = <<jobs[http.id].logs[2]>>

\* ---- C5
\* C5: while the job is stored, the incremental client holds exactly the first
\* `cursor` lines of the job's log, in order, and right after each of its polls
\* it holds the whole log: no line is missed and none is received twice.
C5_IncrementalPolling ==
  ClientJob \in DOMAIN jobs =>
    /\ cursor <= Len(jobs[ClientJob].logs)
    /\ seen = SubSeq(jobs[ClientJob].logs, 1, cursor)
    /\ (http.op = "poll" /\ http.client) => seen = jobs[ClientJob].logs

\* The client's second poll brought it the second line.
C5_Witness ==
  /\ http.op = "poll" /\ http.client
  /\ http.since = Some(<<"1">>)
  /\ Len(http.res.logs) = 1
  /\ Len(seen) = 2

\* ---- C6
InvalidBody(body) ==
  body.kind # "list" \/ Len(body.items) = 0 \/ Len(body.items) > 5

\* C6: a submission whose repos field is missing, no list, empty or longer than
\* 5 is answered 400 and changes nothing (no job, no process, same store); and a
\* generator run given more than 5 references ends with code 1 before its loop.
C6_OverLimitRejected ==
  /\ [][(http'.op = "generate" /\ InvalidBody(http'.body)) =>
         /\ http'.res.code = 400
         /\ UNCHANGED <<jobs, nextId, child, timers, statusWrites, gen, docs,
                        manifestDisk, checkouts>>]_vars
  /\ []((gen.pc \notin {"idle", "spawned"} /\ Len(gen.argv) > 5
          /\ \A k \in 1..Len(gen.argv) : ValidReference(gen.argv[k])) =>
         /\ gen.pc = "exited"
         /\ gen.code = 1
         /\ gen.i = 0
         /\ gen.generated = <<>>
         /\ ~gen.pushTried)

\* A list of six was answered 400 and a run given six references was refused.
C6_Witness ==
  /\ http.op = "generate"
  /\ http.body.kind = "list" /\ Len(http.body.items) = 6
  /\ http.res.code = 400
  /\ gen.pc = "exited" /\ Len(gen.argv) = 6 /\ gen.code = 1

\* ---- C7
\* C7: a poll for an identifier that is not in the store answers 404 with the
\* same body whether the job was never created or was evicted, and a poll
\* changes neither the store nor any job, process or timer.
C7_UnknownJobNotFound ==
  /\ [](http.op = "poll" /\ http.id \notin DOMAIN jobs =>
          http.res = [code |-> 404, error |-> "Job not found"])
  /\ [][http'.op = "poll" => UNCHANGED <<jobs, nextId, child, timers, statusWrites>>]_vars

\* A poll for an evicted job.
C7_Witness ==
  /\ http.op = "poll"
  /\ http.id < nextId
  /\ http.id \notin DOMAIN jobs
  /\ http.res.code = 404

\* ---- C8
\* C8: every stored job whose status is terminal is eventually removed from the
\* store.
C8_TerminalJobEvicted ==
  \A j \in JobIds :
    (j \in DOMAIN jobs /\ Terminal(jobs[j].status)) ~> (j \notin DOMAIN jobs)

\* A job made terminal by a failed spawn has been evicted.
C8_Witness ==
  \E j \in DOMAIN child :
    child[j].code = 0 - 2 /\ child[j].st = "closed" /\ j \notin DOMAIN jobs

\* ---- C9
\* C9: while a job is stored, every step leaves its earlier log sequence a
\* prefix of the later one.
C9_LogsAppendOnly ==
  [][\A j \in DOMAIN jobs \cap DOMAIN jobs' :
       IsPrefix(jobs[j].logs, jobs'[j].logs)]_vars

\* A log that grew twice.
C9_Witness ==
  \E j \in DOMAIN jobs :
    Len(jobs[j].logs) >= 2 /\ jobs[j].logs[1].ts < jobs[j].logs[2].ts

\* ---- C10
\* C10 as stated: the fragments of child text appear in a job's log in the order
\* the process wrote them, whichever of the two streams each was written to.
\* (Fragments are numbered in the order written.)
C10_EmissionOrder ==
  \A j \in DOMAIN jobs :
    LET t == ChildText(jobs[j].logs)
    IN \A a, b \in 1..Len(t) : a < b => t[a] < t[b]

\* The events of the generator process spawned for job j, as the server's
\* handlers see them.
OwnEvent(j) ==
  \/ \E n \in 1..(2 * MaxWrites) : StdoutData(j, n)
  \/ \E n \in 1..(2 * MaxWrites) : StderrData(j, n)
  \/ SpawnFailure(j)
  \/ CloseEvent(j)

HasEntry(m, fullName) == \E k \in 1..Len(m) : m[k].fullName = fullName

\* The run of gen has ended after entering the loop over its references.
RunEndedAfterLoop == gen.pc = "exited" /\ gen.i >= 1

\* Reference k of the run was cloned and generated successfully.
GeneratedOk(k) == gen.outcomes[k] \in {"written", "writefail"}

\* Reference k of the run has its document on disk and its entry in the
\* manifest on disk.
Persisted(k) ==
  /\ HasEntry(manifestDisk, gen.repoArgs[k])
  /\ ManifestEntry(gen.repoArgs[k], now).path \in DOMAIN docs

UniqueFullNames(m) ==
  \A k, l \in 1..Len(m) : m[k].fullName = m[l].fullName => k = l

\* C14: starting from a manifest with at most one entry per fullName, after any
\* sequence of upserts the manifest has at most one entry per fullName; an
\* upsert of a fullName already present replaces that entry in place by the new
\* one, with the later generatedAt, and leaves every other entry and the number
\* of entries unchanged; an upsert of a new fullName appends exactly one entry.
C14_UpsertKeepsUnique ==
  /\ [](UniqueFullNames(manifestDisk))
  /\ [][http'.op = "upsert" =>
          LET f == http'.fullName
              e == ManifestEntry(f, http'.ts)
          IN IF HasEntry(manifestDisk, f)
             THEN /\ Len(manifestDisk') = Len(manifestDisk)
                  /\ \A k \in 1..Len(manifestDisk) :
                       IF manifestDisk[k].fullName = f
                       THEN /\ manifestDisk'[k] = e
                            /\ manifestDisk'[k].generatedAt > manifestDisk[k].generatedAt
                       ELSE manifestDisk'[k] = manifestDisk[k]
             ELSE manifestDisk' = Append(manifestDisk, e)]_vars

\* The first of three entries was upserted again after the two others were
\* added: it is still first, and carries the latest generatedAt.
C14_Witness ==
  /\ http.op = "upsert"
  /\ Len(manifestDisk) = 3
  /\ manifestDisk[1].fullName = http.fullName
  /\ manifestDisk[1].generatedAt = http.ts
  /\ manifestDisk[1].generatedAt > manifestDisk[2].generatedAt
  /\ manifestDisk[2].generatedAt > 0 /\ manifestDisk[3].generatedAt > 0

\* The number of tokens of argv that do not split into two non-empty halves.
InvalidTokenCount(argv) ==
  Cardinality({k \in 1..Len(argv) : ~ValidReference(argv[k])})

\* The number of references the loop reported as invalid and skipped.
ReportedInvalidCount(outcomes) ==
  Cardinality({k \in 1..Len(outcomes) : outcomes[k] = "invalid"})

\* C15: in a run given reference tokens only (no option), every token that does
\* not split on '/' into exactly two non-empty halves is reported as an invalid
\* reference and skipped: a run that went through its whole batch has reported
\* as many invalid references as it was given invalid tokens.
C15_InvalidTokensReported ==
  /\ RunEndedAfterLoop /\ ~gen.persistFailed
  /\ \A k \in 1..Len(gen.argv) : ~StartsWithDashes(gen.argv[k])
  => ReportedInvalidCount(gen.outcomes) = InvalidTokenCount(gen.argv)

\* Every model call in the sequence succeeded.
AllSucceeded(calls) == \A k \in 1..Len(calls) : calls[k]

\* C16: a step in which a model call fails, in round 1 or in a later round,
\* writes no document, upserts no entry, issues no further round for the
\* reference and moves on to the next reference of the batch; rounds are issued
\* and documents written only while every call for the reference has
\* succeeded, so no document is written for a reference with a failed call.
C16_FailedRoundWritesNothing ==
  /\ [][(gen.pc = "round" /\ gen'.outcomes = Append(gen.outcomes, "genfail")) =>
          /\ docs' = docs /\ manifestDisk' = manifestDisk
          /\ gen'.manifest = gen.manifest /\ gen'.generated = gen.generated
          /\ gen'.pc = "repo" /\ gen'.i = gen.i + 1
          /\ gen'.outcomes = Append(gen.outcomes, "genfail")]_vars
  /\ [](gen.pc \in {"round", "write"} => AllSucceeded(gen.calls))
  /\ [][docs' # docs => gen.pc = "write" /\ gen.calls # <<>> /\ AllSucceeded(gen.calls)]_vars

\* The second reference of a batch is next after the first was given up for a
\* failed model call, and nothing was written for it.
C16_Witness ==
  /\ gen.pc = "repo" /\ gen.i = 2 /\ Len(gen.repoArgs) >= 2
  /\ gen.outcomes = <<"genfail">>
  /\ docs = <<>> /\ gen.manifest = <<>> /\ gen.generated = <<>>

\* C17: with an iteration count N >= 1 and every model call succeeding, the
\* refinement loop has made exactly N calls when the document is written
\* (exactly one when N = 1); the calls are made one after another: round k is
\* issued only once the k - 1 rounds before it have returned, and a step makes
\* at most one call.
C17_ExactlyNCalls ==
  /\ [](gen.pc = "round" =>
          /\ Len(gen.calls) = gen.round - 1
          /\ gen.round <= Max(gen.iterations, 1))
  /\ [](gen.pc = "write" /\ gen.iterations >= 1 =>
          Len(gen.calls) = gen.iterations /\ AllSucceeded(gen.calls))
  /\ [][gen'.calls # gen.calls =>
          \/ gen'.calls = <<>>
          \/ \E ok \in BOOLEAN : gen'.calls = Append(gen.calls, ok)]_vars

\* A run with --iterations 1 is about to write a document after one model call.
C17_Witness ==
  /\ gen.pc = "write"
  /\ gen.iterations = 1
  /\ gen.calls = <<TRUE>>

\* C18: one call makes at most 3 attempts, one after another; it returns at the
\* first attempt that succeeds and makes none after it; a non-success status, an
\* empty content field, a timeout and a network error each count as a failed
\* attempt; after 3 failures in a row it throws exactly the error of the third
\* attempt; the failed attempt k < 3 is followed by a delay of 2 * k seconds
\* before attempt k + 1, and no delay follows the third failure.
C18_ThreeAttemptsLinearBackoff ==
  /\ [](/\ Len(gen.results) <= 3
        /\ \A k \in 1..Len(gen.results) :
             k < Len(gen.results) => gen.results[k] \in AttemptFailures
        /\ Len(gen.errors) = Cardinality({k \in 1..Len(gen.results) :
                                           gen.results[k] \in AttemptFailures})
        /\ gen.delays = [k \in 1..Len(gen.delays) |-> 2 * k * 1000]
        /\ Len(gen.delays) = Min(Len(gen.errors), 2)
        /\ gen.pc # "sleep" =>
             now = (IF Len(gen.delays) >= 1 THEN 2000 ELSE 0)
                   + (IF Len(gen.delays) >= 2 THEN 4000 ELSE 0))
  /\ [](gen.pc = "attempt" => gen.attempt = Len(gen.results) + 1)
  /\ [](gen.pc = "returned" =>
          gen.results[Len(gen.results)] = "ok" /\ ~IsSome(gen.thrown))
  /\ [](gen.pc = "thrown" =>
          /\ Len(gen.results) = 3
          /\ gen.thrown = Some(AttemptError(gen.results[3], 3)))
  /\ [][gen.pc \in {"returned", "thrown"} => UNCHANGED vars]_vars

\* Two failed attempts, of which one a timeout, then a success: the call has
\* returned after delays of 2 and 4 seconds.
C18_Witness ==
  /\ gen.pc = "returned"
  /\ Len(gen.results) = 3
  /\ gen.results[1] = "timeout" /\ gen.results[2] = "http"
  /\ gen.delays = <<2000, 4000>>
  /\ now = 6000

\* The priority chain as a list, and the rule of each label.
RuleOrder == <<"ml", "monorepo", "infra", "frontend", "api", "cli", "library">>

Matches(label, c) ==
  CASE label = "ml" -> RuleMl(c)
    [] label = "monorepo" -> RuleMonorepo(c)
    [] label = "infra" -> RuleInfra(c)
    [] label = "frontend" -> RuleFrontend(c)
    [] label = "api" -> RuleApi(c)
    [] label = "cli" -> RuleCli(c)
    [] label = "library" -> RuleLibrary(c)

FirstMatch(c) ==
  IF \E k \in 1..Len(RuleOrder) : Matches(RuleOrder[k], c)
  THEN RuleOrder[CHOOSE k \in 1..Len(RuleOrder) :
                   /\ Matches(RuleOrder[k], c)
                   /\ \A m \in 1..(k - 1) : ~Matches(RuleOrder[m], c)]
  ELSE "generic"

InfraDescriptors ==
  {"Dockerfile", "docker-compose.yml", "docker-compose.yaml", "tf:near",
   "k8s:populated"}

\* C20: a checkout that matches neither the ml rule nor the monorepo rule and
\* contains an infrastructure descriptor is classified infra.
C20_DescriptorMeansInfra ==
  /\ gen.pc = "analysed"
  /\ ~RuleMl(gen.repoPath) /\ ~RuleMonorepo(gen.repoPath)
  /\ gen.repoPath \cap InfraDescriptors # {}
  => gen.type = Some("infra")

\* ---- C21
\* The eight labels.
Labels ==
  {"ml", "api", "cli", "frontend", "library", "infra", "monorepo", "generic"}

InSeq(x, q) == \E k \in 1..Len(q) : q[k] = x

\* C22: analyzeRepo and buildContext raise nothing on any checkout, and every
\* item that is missing or cannot be read is an empty field of the analysis and
\* an omitted or placeholder section of the context: the tree when the root
\* cannot be listed, the readme, the package file, the source files.
C22_ContextBuilderNeverRaises ==
  /\ gen.pc # "raised"
  /\ gen.pc = "context" =>
       LET c == gen.repoPath
           a == gen.analysis[1]
           ctx == gen.context[1]
       IN /\ a.type \in Labels
          /\ "root:unreadable" \in c =>
               a.structure = "" /\ InSeq("## Directory Structure (empty)", ctx)
          /\ "README.md" \notin c =>
               a.readme = "" /\ InSeq("## README (No README found)", ctx)
          /\ c \cap {"pkg:main", "pkg:badjson", "cargo:[lib]", "m:torch",
                      "m:'react'", "m:flask", "m:express", "m:commander"} = {} =>
               /\ a.packageFile = "" /\ a.packageContent = ""
               /\ Len(ctx) = 4 + (IF InSeq("EXTERNAL REPOSITORY", ctx) THEN 1 ELSE 0)
                              + Len(a.sourceFiles)
          /\ "main.py" \notin c =>
               a.sourceFiles = <<>> /\ ~InSeq("## main.py", ctx)

\* A checkout whose root cannot be listed and whose readme and only candidate
\* source file cannot be read gave a context of four sections.
C22_Witness ==
  /\ gen.pc = "context"
  /\ gen.repoPath = {"root:unreadable", "README.md:unreadable", "main.py:unreadable"}
  /\ gen.context = Some(<<"## Repository", "## Detected Project Type",
                          "## Directory Structure (empty)",
                          "## README (No README found)">>)

\* ---- C23
\* C23: a commit or push that fails leaves the documents as they are and the
\* manifest as just written, the process exits with code 0 and, once its close
\* has been handled, the job is success; and a push is attempted only in a run
\* that generated at least one document and was not given --no-push.
C23_PushFailureHarmless ==
  /\ [][(gen'.pushFailed /\ ~gen.pushFailed) =>
         /\ docs' = docs
         /\ manifestDisk' = gen.manifest
         /\ gen'.pc = "exited" /\ gen'.code = 0]_vars
  /\ [](gen.pushFailed =>
         /\ gen.pc = "exited" /\ gen.code = 0
         /\ manifestDisk = gen.manifest
         /\ \A k \in 1..Len(gen.generated) :
              /\ gen.generated[k].path \in DOMAIN docs
              /\ HasEntry(manifestDisk, gen.generated[k].fullName)
         /\ \A j \in DOMAIN jobs :
              (gen.job = j /\ Terminal(jobs[j].status)) => jobs[j].status = "success")
  /\ [](gen.pushTried => Len(gen.generated) >= 1 /\ ~gen.noPush)

\* The push of a job's run failed after one document and the manifest were
\* written; the process exited with 0 and the job is success.
C23_Witness ==
  \E j \in DOMAIN jobs :
    /\ gen.job = j /\ gen.pushTried /\ gen.pushFailed
    /\ Len(gen.generated) = 1 /\ manifestDisk = gen.manifest /\ docs # <<>>
    /\ gen.code = 0 /\ child[j].st = "closed" /\ jobs[j].status = "success"

\* ---- C24
\* C24: a run started with NO_PUSH=1 in its environment makes no commit and no
\* push, as a run given --no-push.
C24_NoPushEnvSkipsPush ==
  gen.env.NO_PUSH = Some(<<"1">>) => ~gen.pushTried

\* ---- C25
\* The failure has a line of kind stderr or error in the logs: its own line,
\* or, for a failure that ends the run, the line of the close handler.
SurfacedAsFailure(logs, why) ==
  \E m \in 1..Len(logs) :
    /\ logs[m].type \in {"stderr", "error"}
    /\ logs[m].message = FailureLine(why) \/ (why \in RunEnding /\ logs[m].type = "error")

\* C25: once the run of a job has ended and its close has been handled, every
\* failure the run met has a log line of kind stderr or error.
C25_FailuresSurfaceAsErrors ==
  \A j \in DOMAIN jobs :
    (gen.job = j /\ j \in DOMAIN child /\ child[j].st = "closed") =>
      \A k \in 1..Len(gen.outcomes) : SurfacedAsFailure(jobs[j].logs, gen.outcomes[k])

\* ---- C26
\* C26: the iteration count of a run is 3 when --iterations is not given or its
\* value is no number, and it is at least 1 whatever value is given.
C26_IterationsAtLeastOne ==
  gen.pc \in {"repo", "round", "write"} =>
    /\ gen.iterations >= 1
    /\ (\A k \in 1..Len(gen.argv) : gen.argv[k] # Tok_iterations) =>
         gen.iterations = DEFAULT_ITERATIONS
    /\ (\E k \in 1..(Len(gen.argv) - 1) :
          /\ gen.argv[k] = Tok_iterations
          /\ parseInt(Some(gen.argv[k + 1])) = None
          /\ \A m \in 1..Len(gen.argv) : m # k => gen.argv[m] # Tok_iterations) =>
         gen.iterations = DEFAULT_ITERATIONS

\* ---- C27
\* C27: no external operation keeps a run waiting beyond its bound: an attempt
\* of a model call at most 2 minutes, a clone and a fetch or reset of a checkout
\* at most 90 seconds.
C27_SuspensionsBounded ==
  gen.pc = "waiting" =>
    /\ gen.op = "modelcall" => now - gen.since <= MODEL_TIMEOUT_MS
    /\ gen.op \in {"clone", "fetch", "reset"} => now - gen.since <= CLONE_TIMEOUT_MS

\* ---- C28
\* The names of the commands of a pass, in order.
CmdNames(ops) == [k \in 1..Len(ops) |-> ops[k].cmd]

\* The pass of the loop of main that handles a well-formed reference.
AcquireStep ==
  /\ gen.pc = "repo" /\ gen.i <= Len(gen.repoArgs)
  /\ ValidReference(gen.repoArgs[gen.i])
  /\ gen' # gen

\* C28 as stated, its second case: when the refresh of an existing checkout
\* fails, the checkout is removed before the clone: after the pass the old
\* checkout is gone, replaced by a fresh clone or absent.
C28_FailedRefreshRemovesCheckout ==
  [][(AcquireStep /\ InSeq("rm", CmdNames(gen'.gitOps))) =>
       \/ gen'.gitOps[Len(gen'.gitOps)] = Cmd("clone", TRUE)
       \/ CloneDir(gen.repoArgs[gen.i]) \notin checkouts']_vars

\* C28, amended: with --no-clone and a checkout, no command is run and the
\* checkout is analysed; else, with a checkout, fetch and reset are tried, and
\* only if one of them fails the removal of the checkout is tried (its failure
\* is ignored) and then a clone; without a checkout a clone is tried, also with
\* --no-clone; the reference is skipped exactly when the clone fails, and is
\* analysed only with a checkout in place.
C28_AcquisitionProtocol ==
  [][AcquireStep =>
       LET dir == CloneDir(gen.repoArgs[gen.i])
           exists == dir \in checkouts
           ops == gen'.gitOps
           names == CmdNames(ops)
       IN /\ (gen.noClone /\ exists) =>
               ops = <<>> /\ gen'.pc = "round" /\ checkouts' = checkouts
          /\ (~gen.noClone /\ exists) =>
               \/ ops = <<Cmd("fetch", TRUE), Cmd("reset", TRUE)>>
               \/ /\ names \in {<<"fetch", "rm", "clone">>,
                                 <<"fetch", "reset", "rm", "clone">>}
                  /\ ~ops[Len(ops) - 2].ok
                  /\ \A k \in 1..(Len(ops) - 3) : ops[k].ok
          /\ ~exists => names = <<"clone">>
          /\ gen'.pc \in {"round", "repo"}
          /\ gen'.pc = "repo" <=> (ops # <<>> /\ ops[Len(ops)] = Cmd("clone", FALSE))
          /\ gen'.pc = "repo" =>
               /\ gen'.i = gen.i + 1
               /\ gen'.outcomes = Append(gen.outcomes, "clonefail")
               /\ gen'.calls = <<>> /\ docs' = docs
          /\ gen'.pc = "round" => dir \in checkouts']_vars

\* A run without --no-clone found a checkout, failed to reset it, removed it
\* and cloned it again, and goes on to generate.
C28_Witness ==
  /\ gen.pc = "round" /\ ~gen.noClone
  /\ gen.gitOps = <<Cmd("fetch", TRUE), Cmd("reset", FALSE), Cmd("rm", TRUE),
                    Cmd("clone", TRUE)>>

\* ---- C29
\* C29: the request of round i >= 2 holds the first 12000 characters of the
\* document extracted from the response of round i - 1 and no other document,
\* the request of round 1 holds none, and generatePage returns exactly the
\* document extracted from the response of its last round.
C29_RoundReplacesDocument ==
  /\ \A i \in 1..Len(gen.requests) :
       /\ gen.requests[i].round = i
       /\ i = 1 => gen.requests[i].current = None
       /\ i >= 2 =>
            LET prev == extractHTML(gen.responses[i - 1])
            IN /\ gen.requests[i].current =
                    Some([id |-> i - 1, len |-> Min(prev.len, SLICE_CHARS)])
               /\ prev.id = i - 1
  /\ gen.pc = "returned" =>
       /\ Len(gen.responses) = Max(gen.iterations, 1)
       /\ gen.returned = Some(extractHTML(gen.responses[Len(gen.responses)]))

\* A page of three rounds was returned; the second response held a document
\* longer than 12000 characters, of which the third request holds the first
\* 12000, and the result is the document of the third response.
C29_Witness ==
  /\ gen.pc = "returned" /\ gen.iterations = 3
  /\ extractHTML(gen.responses[2]).len > SLICE_CHARS
  /\ gen.requests[3].current = Some([id |-> 2, len |-> SLICE_CHARS])
  /\ gen.returned = Some([id |-> 3, len |-> 40])

\* ---- C30
\* C30: when isExternal is set the request of every round, 1 to N, carries the
\* requirement to show or keep the external badge (and the context of round 1
\* names the external repository); when it is not set no request carries it.
C30_ExternalMarkerEveryRound ==
  /\ \A i \in 1..Len(gen.requests) : gen.requests[i].badge = gen.isExternal
  /\ gen.pc # "start" =>
       /\ Len(gen.requests) >= 1
       /\ InSeq("EXTERNAL REPOSITORY", gen.requests[1].context[1]) = gen.isExternal
  /\ gen.pc = "returned" => Len(gen.requests) = Max(gen.iterations, 1)

\* A page for an external repository was returned after three rounds, each of
\* whose requests carried the badge requirement.
C30_Witness ==
  /\ gen.pc = "returned" /\ gen.isExternal /\ Len(gen.requests) = 3
  /\ \A i \in 1..3 : gen.requests[i].badge

\* ---------------------------------------------------------------------- C31
\* The response has an opening html fence and a closing fence after it.
HasFence(c) ==
  \E i \in 1..Len(c), j \in 1..Len(c) :
    /\ c[i] = "T" /\ i + 1 <= Len(c) /\ c[i + 1] = "H" /\ j >= i + 2 /\ c[j] = "T"

\* The text between the first opening fence and the first closing fence
\* after it.
EnclosedText(c) ==
  LET i == MinOf({k \in 1..Len(c) :
                    /\ c[k] = "T" /\ k + 1 <= Len(c) /\ c[k + 1] = "H"
                    /\ Positions(c, "T", k + 2) # {}})
  IN SubSeq(c, i + 2, MinOf(Positions(c, "T", i + 2)) - 1)

\* The text from the first doctype marker on.
FromMarker(c) == SubSeq(c, MinOf(Positions(c, "D", 1)), Len(c))

\* C31 (as stated): extraction gives the content enclosed in the fence when
\* the response has an html fence, even when a doctype marker occurs too;
\* otherwise the text starting at the doctype marker when there is one;
\* otherwise the whole response verbatim.
C31_ExtractionPrecedence ==
  gen.pc = "done" =>
    LET c == gen.content
        r == Val(gen.html)
    IN /\ IsSome(gen.html)
       /\ HasFence(c) => r = trim(EnclosedText(c))
       /\ ~HasFence(c) /\ Positions(c, "D", 1) # {} => r = trim(FromMarker(c))
       /\ ~HasFence(c) /\ Positions(c, "D", 1) = {} => r = c

\* C31 (amended): extraction never fails; when the response has an html
\* fence with non-blank content the result is that content with surrounding
\* white space removed, even when a doctype marker occurs too; when it has no
\* html fence and a doctype marker followed by at least one character, the
\* result is the text from the first such marker with trailing white space
\* removed; when it has neither, the result is the whole response with
\* leading and trailing white space removed.
C31_ExtractionPrecedenceTrimmed ==
  gen.pc = "done" =>
    LET c == gen.content
        r == Val(gen.html)
        marks == {i \in Positions(c, "D", 1) : i < Len(c)}
    IN /\ IsSome(gen.html)
       /\ HasFence(c) /\ trim(EnclosedText(c)) # <<>> => r = trim(EnclosedText(c))
       /\ ~HasFence(c) /\ marks # {} => r = trim(SubSeq(c, MinOf(marks), Len(c)))
       /\ ~HasFence(c) /\ marks = {} => r = trim(c)

\* A response with a doctype marker before a fence has been extracted.
C31_Witness ==
  /\ gen.pc = "done"
  /\ gen.content = <<"D", "s", "T", "H", "x", "T">>
  /\ gen.html = Some(<<"x">>)

\* ---------------------------------------------------------------------- C32
\* Entries one listing shows, lines of a rendering, levels of a rendering,
\* and the kinds of entry a rendering shows anywhere.
RECURSIVE SumOf(_, _)
SumOf(F(_), n) == IF n = 0 THEN 0 ELSE F(n) + SumOf(F, n - 1)

EntriesOf(out) == LET F(i) == out[i].n IN SumOf(F, Len(out))

RECURSIVE LinesOf(_)
LinesOf(out) ==
  LET F(i) == out[i].n * (1 + LinesOf(out[i].sub)) IN SumOf(F, Len(out))

RECURSIVE LevelsOf(_)
LevelsOf(out) ==
  IF out = <<>> THEN 0
  ELSE 1 + MaxOf({LevelsOf(out[i].sub) : i \in 1..Len(out)})

RECURSIVE ListingsOf(_)
ListingsOf(out) ==
  {out} \cup UNION {ListingsOf(out[i].sub) : i \in 1..Len(out)}

\* C32: the rendering of any repository has at most 2 levels, at most 40
\* entries in each listed directory, no entry of the denylist, and so at most
\* 40 + 40*40 lines.
C32_TreeBounded ==
  gen.pc = "done" =>
    LET out == Val(gen.structure)
    IN /\ LevelsOf(out) <= 2
       /\ \A l \in ListingsOf(out) :
            /\ EntriesOf(l) <= 40
            /\ \A i \in 1..Len(l) : l[i].kind # "ignored"
       /\ LinesOf(out) <= 40 + 40 * 40

\* A root of a denylisted entry and of 41 directories with more than 40
\* entries each has been rendered in 40 + 40*40 lines.
C32_Witness ==
  /\ gen.pc = "done"
  /\ Len(gen.root.runs) = 2
  /\ gen.root.runs[1].kind = "ignored"
  /\ gen.root.runs[2].kind = "dir"
  /\ LinesOf(Val(gen.structure)) = 40 + 40 * 40

\* ---------------------------------------------------------------------- C33
\* C33: no two processes are at work in the same checkout directory at the
\* same time.
C33_CheckoutExclusive ==
  \A r1, r2 \in OverlapRuns :
    r1 # r2 /\ gen.runs[r1].pc = "checkout" /\ gen.runs[r2].pc = "checkout"
      => CloneDir(gen.runs[r1].fullName) # CloneDir(gen.runs[r2].fullName)

\* ---------------------------------------------------------------------- C34
\* The manifest on disk has an entry for fullName.
OnDisk(fullName) ==
  \E k \in 1..Len(manifestDisk) : manifestDisk[k].fullName = fullName

\* C34: once two overlapping runs that each generated a repository have both
\* finished, the manifest on disk has the entries of both and every entry it
\* had before.
C34_NoLostManifestUpdate ==
  (\A r \in OverlapRuns : gen.runs[r].pc = "done" /\ gen.runs[r].overlapped)
    => /\ \A r \in OverlapRuns : OnDisk(gen.runs[r].fullName)
       /\ \A k \in 1..Len(gen.initial) : OnDisk(gen.initial[k].fullName)

\* ---------------------------------------------------------------------- C35
\* C35: once a job is terminal, so that a query answers a terminal status, no
\* step changes what a query for it answers, whatever the cursor, as long as
\* the job is stored; and the incremental client holds every log line of the
\* job when it receives a terminal status.
C35_TerminalLogsFinal ==
  [][/\ \A j \in DOMAIN jobs \cap DOMAIN jobs' :
          Terminal(jobs[j].status) =>
            \A q \in SinceInputs : JobResponse(jobs'[j], q) = JobResponse(jobs[j], q)
     /\ (/\ http'.op = "poll" /\ http'.client /\ http'.res.code = 200
         /\ Terminal(http'.res.status))
          => seen' = jobs'[ClientJob].logs]_vars

\* The client, having all lines of a terminal job that wrote output, polls
\* again and receives the terminal status and no new line.
C35_Witness ==
  /\ http.op = "poll" /\ http.client /\ http.res.code = 200
  /\ Terminal(http.res.status)
  /\ http.res.logs = <<>>
  /\ http.res.totalLogs >= 2
  /\ cursor = http.res.totalLogs

C37_DistinctOutputPaths ==
  /\ \A k, m \in 1..Len(manifestDisk) :
       manifestDisk[k].fullName # manifestDisk[m].fullName
         => manifestDisk[k].path # manifestDisk[m].path
  /\ \A k \in 1..Len(manifestDisk) :
       manifestDisk[k].path \in DOMAIN docs
         => docs[manifestDisk[k].path].fullName = manifestDisk[k].fullName

\* ---------------------------------------------------------------------- C38
\* C38: when a run has ended, every reference whose document it wrote has an
\* entry in the manifest on disk.
C38_WrittenDocumentsHaveEntries ==
  gen.pc = "exited" =>
    \A k \in 1..Len(gen.outcomes) :
      gen.outcomes[k] = "written" => HasEntry(manifestDisk, gen.repoArgs[k])

\* ---------------------------------------------------------------------- C39
\* C39: the run started for a job works on its references with the same
\* configuration whatever the tokens of the submission: the default iteration
\* count, refresh and push.
C39_TokensNeverOptions ==
  (gen.job # 0 /\ gen.i >= 1) =>
    /\ gen.iterations = DEFAULT_ITERATIONS
    /\ ~gen.noClone
    /\ ~gen.noPush

\* ---------------------------------------------------------------------- C40
\* C40: a step removes a job from the store only when the job is terminal, and
\* an eviction timer is pending only for a terminal job; so every job that
\* is running is in the store.
C40_RunningJobStored ==
  [][/\ \A j \in DOMAIN jobs : j \notin DOMAIN jobs' => Terminal(jobs[j].status)
     /\ \A j \in DOMAIN timers' \cap DOMAIN jobs' : Terminal(jobs'[j].status)]_vars

\* A job that ran and ended has been evicted, and its timer is gone.
C40_Witness ==
  \E j \in DOMAIN child :
    /\ child[j].st = "closed" /\ child[j].code = 0
    /\ j \notin DOMAIN jobs /\ j \notin DOMAIN timers

====
